---- MODULE Spec2Model ----
(***************************************************************************)
(* Cooperative fiber runtime of conc (source/app/2-runtime.h) on top of    *)
(* the arena allocator (source/app/1-memory.h).                            *)
(*                                                                         *)
(* Fiber ids are the C ids (host = 0); C arrays are TLA+ sequences, so C   *)
(* items[i] is seq[i + 1].  Sizes are scaled: PageSize stands for          *)
(* getpagesize().                                                          *)
(***************************************************************************)
EXTENDS Integers, Sequences, FiniteSets, TLC

\* ---------------------------------------------------------------- bounds
MaxFibers == 3      \* size of the fiber table, host included
MaxFd     == 1      \* file descriptors 1..MaxFd
MaxBlocks == 1      \* runtime_alloc calls per fiber life
MaxSpawn  == 3      \* fibers spawned by the counter test
MaxSteps  == 3      \* loop iterations of one counter fiber
PageSize  == 2      \* getpagesize(), scaled
ArenaCap  == 3      \* capacity of the arena of test-memory.c, scaled
MaxOps    == 4      \* calls made on the arena under test
MaxCalls  == 3      \* response calls a handler makes on its request
MaxConns  == 3      \* connections the listener accepts
BufSize   == 52     \* sizeof(buf) in network_parse_http, scaled
MaxHandlers == 2    \* handler fibers alive at a time
MaxRoutes == 2      \* endpoints registered with the router
SendBuf == 2        \* bytes the send buffer of a socket holds

Fds == 1..MaxFd
POLLRDNORM == "POLLRDNORM"
POLLWRNORM == "POLLWRNORM"
Events == {POLLRDNORM, POLLWRNORM}
NULL == <<>>
AllocSizes == {1, PageSize, PageSize + 1}
ArenaSizes == 1..(ArenaCap + 1)
Values == {1, 2}         \* byte values user code writes; 0 is a zeroed byte
LogLen == PageSize - 1   \* a runtime_logf message is shorter than one page

Range(s) == {s[i] : i \in 1..Len(s)}

\* ------------------------------------------------------- 1-memory.h: slices
\* memory_slice_append: items[count++] = item
memory_slice_append(slice, item) == Append(slice, item)

\* memory_slice_remove: items[index] = items[--count]   (index is the C index)
memory_slice_remove(slice, index) ==
    LET last == slice[Len(slice)]
        cut  == SubSeq(slice, 1, Len(slice) - 1)
    IN  IF index + 1 = Len(slice) THEN cut
        ELSE [cut EXCEPT ![index + 1] = last]

\* -------------------------------------------------------- 1-memory.h: arena
\* An arena is the chain of its pages in next order; a page carries its own
\* block list, newest block first.  NULL is the empty chain.
memory_arena(capacity) ==
    << [capacity |-> capacity, count |-> 0, blocks |-> <<>>] >>

memory_block_count(arena) ==
    IF arena = NULL THEN 0 ELSE Len(arena[1].blocks)

RECURSIVE memory_alloc_search(_, _, _)
\* the while loop of memory_alloc: first page with room, or the last page
memory_alloc_search(arena, size, i) ==
    IF arena[i].count + size > arena[i].capacity /\ i < Len(arena)
    THEN memory_alloc_search(arena, size, i + 1)
    ELSE i

\* memory_alloc that never maps a new page
memory_alloc_nogrow(arena, size) ==
    LET i     == memory_alloc_search(arena, size, 1)
        off   == arena[i].count
        block == [ptr |-> off, size |-> size]
    IN  [arena |-> [arena EXCEPT ![i] = [@ EXCEPT !.count = @ + size,
                                                  !.blocks = <<block>> \o @]],
         page  |-> i,
         ptr   |-> off]

\* memory_alloc on a non-NULL arena: the new chain, and the page and offset
\* of the returned pointer
memory_alloc(arena, size) ==
    LET i     == memory_alloc_search(arena, size, 1)
        grow  == arena[i].count + size >= arena[i].capacity
        cap   == IF arena[i].capacity > size THEN arena[i].capacity ELSE size
        chain == IF grow
                 THEN Append(SubSeq(arena, 1, i), memory_arena(cap * 2)[1])
                 ELSE arena
        p     == IF grow THEN i + 1 ELSE i
        off   == chain[p].count
        block == [ptr |-> off, size |-> size]
    IN  [arena |-> [chain EXCEPT ![p] = [@ EXCEPT !.count = @ + size,
                                                  !.blocks = <<block>> \o @]],
         page  |-> p,
         ptr   |-> off]

\* memory_empty loops on arena->next, which memory_destroy never clears: with
\* a second page the loop passes an unmapped page to memory_destroy.
memory_empty_faults(arena) == arena # NULL /\ Len(arena) > 1

memory_empty(arena) ==
    IF arena = NULL THEN NULL
    ELSE << [capacity |-> arena[1].capacity, count |-> 0, blocks |-> <<>>] >>

ArenaBlocks(arena) ==
    LET RECURSIVE Sum(_)
        Sum(i) == IF i = 0 THEN 0 ELSE Len(arena[i].blocks) + Sum(i - 1)
    IN  Sum(Len(arena))

\* whether memory_alloc maps a new page (the test of line 131)
memory_alloc_grows(arena, size) ==
    LET i == memory_alloc_search(arena, size, 1)
    IN  arena[i].count + size >= arena[i].capacity

\* memory_realloc on a non-NULL arena.  old is a pointer as memory_alloc
\* returns it (page 0: a page that is not in the chain any more); only the
\* block list of the head page is searched.  page 0 in the result is NULL;
\* copy is the number of bytes copied to the new region.
memory_realloc(arena, old, size) ==
    LET found == {j \in 1..Len(arena[1].blocks) :
                     old.page = 1 /\ arena[1].blocks[j].ptr = old.ptr}
    IN  IF found = {}
        THEN [arena |-> arena, page |-> 0, ptr |-> 0, copy |-> 0]
        ELSE LET block == arena[1].blocks[CHOOSE j \in found : TRUE]
             IN  IF block.size >= size
                 THEN [arena |-> arena, page |-> old.page, ptr |-> old.ptr,
                       copy |-> 0]
                 ELSE LET new == memory_alloc(arena, size)
                      IN  [arena |-> new.arena, page |-> new.page,
                           ptr |-> new.ptr, copy |-> block.size]

\* memory_destroy unmaps the page and, through its recursion, every page
\* after it
memory_destroy(arena) == NULL

\* ------------------------------------------------------ 2-runtime.h: state
VARIABLES
    runtime_fibers,          \* fiber table: [memory |-> arena]; id i at i + 1
    runtime_running_fibers,  \* ready ids
    runtime_waiting_fibers,  \* ids blocked on I/O
    runtime_stopped_fibers,  \* reusable ids
    runtime_polls,           \* pollfd records, parallel to waiting
    runtime_current_fiber,   \* C index into runtime_running_fibers
    pc,                      \* where the process is: "run", blocked in a
                             \* poll, or ended
    host_pc,                 \* "user" or "main": the host inside runtime_main
    ready_fds,               \* <<fd, event>> pairs the kernel reports ready
    poll_call,               \* timeout and ready count of the last poll call
    wait_cond,               \* waiting id -> {fd, direction} it registered
    yield_window,            \* ids resumed by the latest consecutive yields
    plan,                    \* counter test: step count of each fiber
    work,                    \* counter test: steps each fiber still has
    trace                    \* counter test: the printed <<id, i>> lines

\* ---------------------------------- tests/app/test-memory.c: one arena
VARIABLES
    test_arena,              \* the arena under test, head page first
    arena_pc,                \* "run", or "fault_empty" once memory_empty
                             \* has read a page it unmapped
    page_ids,                \* the mapping (address) of each page of it
    pages_made,              \* number of mappings made so far
    handed,                  \* blocks handed out since the last reset
    cells,                   \* bytes written: <<mapping, offset>> -> value
    arena_ret,               \* what the latest arena call returned
    first_ptr,               \* first pointer of the sequence before the
                             \* latest reset, and of the current sequence
    arena_ops                \* number of arena calls made

arena_vars == << test_arena, arena_pc, page_ids, pages_made, handed, cells,
                 arena_ret, first_ptr, arena_ops >>

\* ------------------------------------------- 4-network.h: one request
VARIABLES
    req,                     \* the NetworkRequest of the handler
    conn,                    \* the connection: what the peer received, ...
    http_ret,                \* what the latest response call returned
    http_calls,              \* response calls made on the request so far
    requests,                \* network_listen: per accepted request, the
                             \* fiber whose arena holds it and its handler
    listener                 \* id of the fiber in network_listen, -1: none

http_vars == << req, conn, http_ret, http_calls, requests, listener >>

\* one connection seen byte by byte: what the client has still to send and
\* has sent in all, what the socket holds, whether the client has shut its
\* side, the parser's buffer, where the server is and what it made of it
VARIABLES
    wire, sent, sock, fin, parse_buf, parse_pc, parsed, body_got

\* the server around it: which of the two sources it is built from, the
\* connections waiting to be accepted, and per accepted connection where its
\* descriptor went and how many handlers it got
VARIABLES
    build, pending, served

\* the router of source/lite and the request it dispatched
VARIABLES
    router,         \* the static router: capacity and the endpoints
    routed          \* the request network_listen looked up, and the endpoint

route_vars == << router, routed >>

\* one call of network_write
VARIABLES
    write_buf,      \* buf, size being its length
    total_written,
    write_pc,       \* where the call is
    write_ret,      \* what it returned
    delivered,      \* the bytes the descriptor has taken, in order
    space,          \* free room in the socket's send buffer
    write_error     \* the peer has reset the connection

write_vars == << write_buf, total_written, write_pc, write_ret, delivered,
                space, write_error >>

\* one call of network_read or network_read_until
VARIABLES
    read_fn,        \* which of the two
    read_size,      \* the argument n or size
    read_pc,        \* where the call is
    read_ret,       \* what it returned
    read_buf,       \* the bytes stored from buf[0] on
    read_nul,       \* the indices of buf a NUL was written to
    read_error      \* the peer has reset the connection

read_vars == << read_fn, read_size, read_pc, read_ret, read_buf, read_nul,
               read_error >>

\* a handler fiber in network_write
VARIABLES
    writer,         \* its id, -1 before it is started
    would_blocks    \* the EAGAIN results of its call so far

flow_vars == << writer, would_blocks >>

\* the number of ids the stopped list held when runtime_start was last called
VARIABLES
    started

io_vars == << wire, sent, sock, fin, parse_buf, parse_pc, parsed, body_got,
             build, pending, served, route_vars, write_vars,
             read_vars, flow_vars, started >>

lib_vars == << arena_vars, http_vars, io_vars >>

vars == << runtime_fibers, runtime_running_fibers, runtime_waiting_fibers,
           runtime_stopped_fibers, runtime_polls, runtime_current_fiber,
           pc, host_pc, ready_fds, poll_call, wait_cond, yield_window,
           plan, work, trace, arena_vars, http_vars, io_vars >>

NoPoll == [timeout |-> 0, ready |-> 0, polled |-> FALSE]

\* the scheduler's globals as one value, so that handlers compose
Sched ==
    [fibers  |-> runtime_fibers,
     running |-> runtime_running_fibers,
     waiting |-> runtime_waiting_fibers,
     stopped |-> runtime_stopped_fibers,
     polls   |-> runtime_polls,
     current |-> runtime_current_fiber,
     pc      |-> pc,
     host_pc |-> host_pc,
     poll_call |-> NoPoll]

runtime_id(s) == s.running[s.current + 1]

runtime_memory(s) == s.fibers[runtime_id(s) + 1].memory

\* runtime_alloc: the arena of the current fiber is made on first use
runtime_alloc(s, size) ==
    LET id    == runtime_id(s)
        arena == IF s.fibers[id + 1].memory = NULL
                 THEN memory_arena(IF PageSize > size THEN PageSize ELSE size)
                 ELSE s.fibers[id + 1].memory
    IN  [s EXCEPT !.fibers[id + 1].memory = memory_alloc(arena, size).arena]

\* runtime_logf allocates the formatted message in the current arena
runtime_logf(s) == runtime_alloc(s, LogLen)

\* runtime_start that reads the last stopped id without popping it
runtime_start_keep(s) ==
    LET reuse    == Len(s.stopped) > 0
        fiber_id == IF reuse THEN s.stopped[Len(s.stopped)]
                    ELSE Len(s.fibers)
        s1 == IF reuse THEN s
              ELSE [s EXCEPT !.fibers =
                        memory_slice_append(@, [memory |-> memory_arena(PageSize)])]
    IN  [s1 EXCEPT !.running = memory_slice_append(@, fiber_id)]

\* runtime_start that reuses the id stopped first
runtime_start_fifo(s) ==
    LET reuse    == Len(s.stopped) > 0
        fiber_id == IF reuse THEN s.stopped[1]
                    ELSE Len(s.fibers)
        s1 == IF reuse
              THEN [s EXCEPT !.stopped = Tail(@)]
              ELSE [s EXCEPT !.fibers =
                        memory_slice_append(@, [memory |-> memory_arena(PageSize)])]
    IN  [s1 EXCEPT !.running = memory_slice_append(@, fiber_id)]

\* runtime_start: reuse the last stopped id or grow the table; the stack
\* frame it writes makes the fiber begin at fn and return into runtime_stop
runtime_start(s) ==
    LET reuse    == Len(s.stopped) > 0
        fiber_id == IF reuse THEN s.stopped[Len(s.stopped)]
                    ELSE Len(s.fibers)
        s1 == IF reuse
              THEN [s EXCEPT !.stopped = SubSeq(@, 1, Len(@) - 1)]
              ELSE [s EXCEPT !.fibers =
                        memory_slice_append(@, [memory |-> memory_arena(PageSize)])]
    IN  [s1 EXCEPT !.running = memory_slice_append(@, fiber_id)]

\* poll(): the kernel fills revents of every record
runtime_poll(s) ==
    [s EXCEPT !.polls =
        [i \in 1..Len(s.polls) |->
            [s.polls[i] EXCEPT !.revents =
                IF <<s.polls[i].fd, s.polls[i].events>> \in ready_fds
                THEN {s.polls[i].events} ELSE {}]]]

\* a poll with timeout -1 does not return while no record is ready (poll is
\* taken not to fail: a negative result ends the process in both drivers)
poll_blocks(s, timeout) ==
    /\ timeout = -1
    /\ \A i \in 1..Len(s.polls) :
          <<s.polls[i].fd, s.polls[i].events>> \notin ready_fds

RECURSIVE runtime_wake_pop(_, _)
\* the wake loop dropping the last waiting id instead of the woken one
runtime_wake_pop(s, i) ==
    IF i < Len(s.polls)
    THEN IF s.polls[i + 1].revents # {}
         THEN LET proc_id == s.waiting[i + 1]
              IN  runtime_wake_pop(
                      [s EXCEPT !.polls   = memory_slice_remove(@, i),
                                !.waiting = SubSeq(@, 1, Len(@) - 1),
                                !.running = memory_slice_append(@, proc_id)],
                      i)
         ELSE runtime_wake_pop(s, i + 1)
    ELSE s

\* a wake loop that moves every waiting fiber, whatever poll reported
runtime_wake_all(s, i) ==
    [s EXCEPT !.polls   = << >>,
              !.waiting = << >>,
              !.running = @ \o s.waiting]

RECURSIVE runtime_wake(_, _)
\* the for loop after poll: move every fiber whose record has revents
runtime_wake(s, i) ==
    IF i < Len(s.polls)
    THEN IF s.polls[i + 1].revents # {}
         THEN LET proc_id == s.waiting[i + 1]
              IN  runtime_wake(
                      [s EXCEPT !.polls   = memory_slice_remove(@, i),
                                !.waiting = memory_slice_remove(@, i),
                                !.running = memory_slice_append(@, proc_id)],
                      i)
         ELSE runtime_wake(s, i + 1)
    ELSE s

\* a driver that never blocks in poll
runtime_timeout_zero(s) == 0

\* the timeout both drivers compute
runtime_timeout(s) == IF Len(s.running) > 1 THEN 0 ELSE -1

\* runtime_next after its poll: pick running[current % count] and resume it
runtime_next_resume(s) ==
    IF Len(s.running) > 0
    THEN [s EXCEPT !.current = @ % Len(s.running), !.pc = "run"]
    ELSE [s EXCEPT !.pc = "fault_next"]

runtime_next(s) ==
    IF Len(s.polls) > 0
    THEN LET timeout == runtime_timeout(s)
             s1 == [s EXCEPT !.poll_call = [timeout |-> timeout,
                                            ready   |-> Len(s.running),
                                            polled  |-> TRUE]]
         IN  IF poll_blocks(s1, timeout)
             THEN [s1 EXCEPT !.pc = "poll_next"]
             ELSE runtime_next_resume(runtime_wake(runtime_poll(s1), 0))
    ELSE runtime_next_resume(s)

\* a yield that advances the current index by two
_runtime_yield_skip(s) == runtime_next([s EXCEPT !.current = @ + 2])

\* a yield that forgets to advance the current index
_runtime_yield_stay(s) == runtime_next(s)

_runtime_yield(s) == runtime_next([s EXCEPT !.current = @ + 1])

\* the body shared by _runtime_read and _runtime_write
runtime_wait(s, fd, events) ==
    LET fiber_id == runtime_id(s)
        poll     == [fd |-> fd, events |-> events, revents |-> {}]
    IN  runtime_next(
            [s EXCEPT !.polls   = memory_slice_append(@, poll),
                      !.waiting = memory_slice_append(@, fiber_id),
                      !.running = memory_slice_remove(@, s.current)])

\* _runtime_read that yields instead of waiting for the descriptor
_runtime_read_spin(s, fd) == _runtime_yield(s)

_runtime_read(s, fd) == runtime_wait(s, fd, POLLRDNORM)

\* _runtime_write that yields instead of waiting for the descriptor
_runtime_write_spin(s, fd) == _runtime_yield(s)

_runtime_write(s, fd) == runtime_wait(s, fd, POLLWRNORM)

\* runtime_stop after its poll: promote waiting[0] if nothing is ready, then
\* resume running[current % count]
runtime_stop_resume(s) ==
    LET s1 == IF Len(s.running) = 0 /\ Len(s.waiting) > 0
              THEN [s EXCEPT !.running = memory_slice_append(@, s.waiting[1]),
                             !.waiting = memory_slice_remove(@, 0),
                             !.polls   = memory_slice_remove(@, 0)]
              ELSE s
    IN  IF Len(s1.running) > 0
        THEN [s1 EXCEPT !.current = @ % Len(s1.running), !.pc = "run"]
        ELSE [s1 EXCEPT !.pc = "fault_stop"]

\* runtime_stop without the check for the host id
runtime_stop_any(s) ==
    LET fiber_id == runtime_id(s)
        s1 == [s EXCEPT
                 !.fibers[fiber_id + 1].memory = memory_empty(@),
                 !.stopped = memory_slice_append(@, fiber_id),
                 !.running = memory_slice_remove(@, s.current)]
    IN  IF Len(s1.polls) > 0 /\ poll_blocks(s1, runtime_timeout(s1))
        THEN [s1 EXCEPT !.pc = "poll_stop"]
        ELSE runtime_stop_resume(runtime_wake(runtime_poll(s1), 0))

runtime_stop(s) ==
    LET fiber_id == runtime_id(s)
    IN  IF fiber_id = 0
        THEN [runtime_logf(s) EXCEPT !.pc = "exit_stop"]
        ELSE IF memory_empty_faults(s.fibers[fiber_id + 1].memory)
        THEN [s EXCEPT !.pc = "fault_empty"]
        ELSE
          LET s1 == [s EXCEPT
                       !.fibers[fiber_id + 1].memory = memory_empty(@),
                       !.stopped = memory_slice_append(@, fiber_id),
                       !.running = memory_slice_remove(@, s.current)]
          IN  IF Len(s1.polls) > 0
              THEN LET timeout == runtime_timeout(s1)
                       s2 == [s1 EXCEPT !.poll_call =
                                 [timeout |-> timeout,
                                  ready   |-> Len(s1.running),
                                  polled  |-> TRUE]]
                   IN  IF poll_blocks(s2, timeout)
                       THEN [s2 EXCEPT !.pc = "poll_stop"]
                       ELSE runtime_stop_resume(
                                runtime_wake(runtime_poll(s2), 0))
              ELSE runtime_stop_resume(s1)

\* runtime_main that also waits while the host alone is ready
runtime_main_spin(s) ==
    IF Len(s.running) > 0 \/ Len(s.waiting) > 1
    THEN _runtime_yield([s EXCEPT !.host_pc = "main"])
    ELSE [s EXCEPT !.pc = "done", !.host_pc = "main"]

\* one pass of the loop of runtime_main, run by the host
runtime_main(s) ==
    IF Len(s.running) > 1 \/ Len(s.waiting) > 1
    THEN _runtime_yield([s EXCEPT !.host_pc = "main"])
    ELSE [s EXCEPT !.pc = "done", !.host_pc = "main"]

\* -------------------------------------- tests/app/test-memory.c: one arena
\* The program of the test: one arena made by memory_arena, then calls of
\* memory_alloc, memory_realloc and memory_empty with writes through the
\* pointers in between, and memory_destroy at the end.  A pointer is the
\* mapping it points into and its offset there; mapping 1 is the head page.
NoPtr == [page |-> 0, ptr |-> 0]

SchedVars == << runtime_fibers, runtime_running_fibers,
               runtime_waiting_fibers, runtime_stopped_fibers, runtime_polls,
               runtime_current_fiber, pc, host_pc, ready_fds, poll_call,
               wait_cond, yield_window, plan, work, trace >>

InitArena ==
    /\ test_arena = memory_arena(ArenaCap)
    /\ arena_pc = "run"
    /\ page_ids = << 1 >>
    /\ pages_made = 1
    /\ handed = << >>
    /\ cells = << >>
    /\ arena_ret = [op |-> "memory_arena", page |-> 1, ptr |-> 0]
    /\ first_ptr = [prev |-> NoPtr, cur |-> NoPtr]
    /\ arena_ops = 0

\* the byte at an address (a mapping starts zeroed)
CellAt(c, page, off) ==
    IF << page, off >> \in DOMAIN c THEN c[<< page, off >>] ELSE 0

\* the addresses of a block
BlockCells(b) == {<< b.page, b.ptr + i >> : i \in 0..(b.size - 1)}

\* position in the chain of the page mapped at id, 0 if it is not chained
ChainIndex(ids, id) ==
    IF \E i \in 1..Len(ids) : ids[i] = id
    THEN CHOOSE i \in 1..Len(ids) : ids[i] = id
    ELSE 0

\* the mappings of the chain after a memory_alloc that returned in page p
PageIdsAfter(grows, p) ==
    IF grows THEN Append(SubSeq(page_ids, 1, p - 1), pages_made + 1)
    ELSE page_ids

ArenaCall == arena_pc = "run" /\ arena_ops < MaxOps

\* data = memory_alloc(arena, size)
ArenaAlloc(size) ==
    /\ ArenaCall
    /\ LET grows == memory_alloc_grows(test_arena, size)
           r     == memory_alloc(test_arena, size)
           ids   == PageIdsAfter(grows, r.page)
           new   == [page |-> ids[r.page], ptr |-> r.ptr]
       IN  /\ test_arena' = r.arena
           /\ page_ids' = ids
           /\ pages_made' = IF grows THEN pages_made + 1 ELSE pages_made
           /\ handed' = Append(handed, [page |-> new.page, ptr |-> new.ptr,
                                        size |-> size])
           /\ arena_ret' = [op |-> "memory_alloc", page |-> new.page,
                            ptr |-> new.ptr]
           /\ first_ptr' = IF first_ptr.cur = NoPtr
                           THEN [first_ptr EXCEPT !.cur = new]
                           ELSE first_ptr
    /\ arena_ops' = arena_ops + 1
    /\ UNCHANGED << arena_pc, cells, SchedVars, http_vars,
                    io_vars >>

\* b2 = memory_realloc(arena, b, size), b being the k-th block handed out
ArenaRealloc(k, size) ==
    /\ ArenaCall
    /\ k \in 1..Len(handed)
    /\ LET old   == handed[k]
           at    == ChainIndex(page_ids, old.page)
           r     == memory_realloc(test_arena,
                                   [page |-> at, ptr |-> old.ptr], size)
           fresh == r.copy > 0
           grows == fresh /\ memory_alloc_grows(test_arena, size)
           ids   == PageIdsAfter(grows, r.page)
           new   == IF r.page = 0 THEN NoPtr
                    ELSE [page |-> ids[r.page], ptr |-> r.ptr]
           dst   == {<< new.page, new.ptr + i >> : i \in 0..(r.copy - 1)}
           src(c) == CellAt(cells, old.page, old.ptr + (c[2] - new.ptr))
       IN  /\ test_arena' = r.arena
           /\ page_ids' = ids
           /\ pages_made' = IF grows THEN pages_made + 1 ELSE pages_made
           /\ handed' = IF fresh
                        THEN Append(handed, [page |-> new.page,
                                             ptr |-> new.ptr, size |-> size])
                        ELSE handed
           /\ cells' = [c \in (DOMAIN cells \ dst)
                                  \cup {d \in dst : src(d) # 0} |->
                           IF c \in dst THEN src(c) ELSE cells[c]]
           /\ arena_ret' = [op |-> "memory_realloc", page |-> new.page,
                            ptr |-> new.ptr]
    /\ arena_ops' = arena_ops + 1
    /\ UNCHANGED << arena_pc, first_ptr, SchedVars, http_vars,
                    io_vars >>

\* user code fills the k-th block handed out with value
ArenaWrite(k, value) ==
    /\ ArenaCall
    /\ k \in 1..Len(handed)
    /\ \E c \in BlockCells(handed[k]) :
          CellAt(cells, c[1], c[2]) # value
    /\ cells' = [c \in DOMAIN cells \cup BlockCells(handed[k]) |->
                    IF c \in BlockCells(handed[k]) THEN value ELSE cells[c]]
    /\ arena_ops' = arena_ops + 1
    /\ UNCHANGED << test_arena, arena_pc, page_ids, pages_made, handed,
                    arena_ret, first_ptr, SchedVars, http_vars,
                    io_vars >>

\* memory_empty(arena)
ArenaEmpty ==
    /\ ArenaCall
    /\ IF memory_empty_faults(test_arena)
       THEN /\ arena_pc' = "fault_empty"
            /\ UNCHANGED << test_arena, page_ids, handed, cells, first_ptr >>
       ELSE /\ test_arena' = memory_empty(test_arena)
            /\ page_ids' = << page_ids[1] >>
            /\ handed' = << >>
            /\ cells' = [c \in {d \in DOMAIN cells : d[1] # page_ids[1]}
                             |-> cells[c]]
            /\ first_ptr' = [prev |-> first_ptr.cur, cur |-> NoPtr]
            /\ UNCHANGED arena_pc
    /\ arena_ret' = [op |-> "memory_empty", page |-> 0, ptr |-> 0]
    /\ arena_ops' = arena_ops + 1
    /\ UNCHANGED << pages_made, SchedVars, http_vars,
                    io_vars >>

\* memory_destroy(arena) ends the test
ArenaDestroy ==
    /\ arena_pc = "run"
    /\ test_arena' = memory_destroy(test_arena)
    /\ arena_pc' = "destroyed"
    /\ page_ids' = << >>
    /\ arena_ret' = [op |-> "memory_destroy", page |-> 0, ptr |-> 0]
    /\ UNCHANGED << pages_made, handed, cells, first_ptr, arena_ops,
                    SchedVars, http_vars,
                    io_vars >>

NextArena ==
    \/ \E size \in ArenaSizes : ArenaAlloc(size)
    \/ \E k \in 1..MaxOps, size \in ArenaSizes : ArenaRealloc(k, size)
    \/ \E k \in 1..MaxOps, value \in Values : ArenaWrite(k, value)
    \/ ArenaEmpty
    \/ ArenaDestroy

\* ------------------------------------------- 4-network.h: the response
\* One request in the hands of its handler.  A text is a sequence of
\* characters; what reaches the peer is kept as the sequence of buffers that
\* network_write delivered.
Digit == << "0", "1", "2", "3", "4", "5", "6", "7", "8", "9" >>

RECURSIVE Decimal(_)
\* snprintf("%d") of a non-negative int
Decimal(n) ==
    IF n < 10 THEN << Digit[n + 1] >>
    ELSE Decimal(n \div 10) \o << Digit[(n % 10) + 1] >>

\* tolower of every character, for the keys the handlers use
LowerCase(key) ==
    CASE key = "Content-Length" -> "content-length"
      [] key = "CONTENT-LENGTH" -> "content-length"
      [] key = "Content-Type"   -> "content-type"
      [] OTHER                  -> key

strcasecmp(a, b) == IF LowerCase(a) = LowerCase(b) THEN 0 ELSE 1

HeaderKeys == {"Content-Length", "CONTENT-LENGTH", "Content-Type"}
HeaderValues == {<< "7" >>, << "t", "x", "t" >>}
Statuses == {200, 404}   \* a response status has three digits
Message(status) == IF status = 200 THEN "OK" ELSE "Not Found"
BodyLens == {0, 12}
ConnFd == MaxFd          \* the descriptor accept returned

\* the buffers written to the connection
StatusLine(status, message) ==
    [kind |-> "status", text |-> message, val |-> Decimal(status), len |-> 0]
HeaderLine(h) ==
    [kind |-> "header", text |-> h.key, val |-> h.value, len |-> 0]
BlankLine == [kind |-> "blank", text |-> "", val |-> << >>, len |-> 0]
BodyBytes(len) == [kind |-> "body", text |-> "", val |-> << >>, len |-> len]
\* the part of a buffer that got through before a write failed
CutShort == [kind |-> "cut", text |-> "", val |-> << >>, len |-> 0]

\* strlen of a buffer
BufLen(buf) ==
    CASE buf.kind = "status" -> 9 + Len(buf.val) + 1 + Len(buf.text) + 2
      [] buf.kind = "header" -> Len(buf.text) + 2 + Len(buf.val) + 2
      [] buf.kind = "blank"  -> 2
      [] OTHER               -> buf.len

InitRequest ==
    /\ req = [conn_fd |-> ConnFd, res_headers |-> << >>, res_status |-> 0]
    /\ conn = [open |-> TRUE, closes |-> 0, out |-> << >>,
               broken |-> FALSE, left |-> 0, cut |-> FALSE]
    /\ http_ret = [op |-> "network_parse_http", n |-> 0]
    /\ http_calls = 0
    /\ requests = << >>
    /\ listener = -1

\* network_write: every byte of buf is delivered, after as many waits for
\* writability as it takes, or a permanent error ends it with -1.  c.left is
\* the number of buffers the peer still takes before it resets the
\* connection, c.cut whether the failing write delivered a part.
network_write(c, fd, buf) ==
    IF fd # ConnFd \/ ~ c.open
    THEN [conn |-> c, n |-> -1]
    ELSE IF c.broken
    THEN [conn |-> c, n |-> -1]
    ELSE IF c.left = 0
    THEN [conn |-> [c EXCEPT !.broken = TRUE,
                             !.out = IF c.cut THEN Append(@, CutShort) ELSE @],
          n |-> -1]
    ELSE [conn |-> [c EXCEPT !.out = Append(@, buf), !.left = @ - 1],
          n |-> BufLen(buf)]

\* close(fd)
close(c, fd) ==
    IF fd = ConnFd /\ c.open
    THEN [c EXCEPT !.open = FALSE, !.closes = @ + 1]
    ELSE c

\* network_get_header's and network_set_header's search of a list
HeaderIndex(headers, header) ==
    LET found == {i \in 1..Len(headers) :
                     strcasecmp(headers[i].key, header) = 0}
    IN  IF found = {} THEN 0
        ELSE CHOOSE i \in found : \A j \in found : i <= j

\* network_set_header that adds an entry without looking for the key
network_set_header_add(r, header, value) ==
    [r EXCEPT !.res_headers = << [key |-> header, value |-> value] >> \o @]

\* network_set_header that leaves the value of an entry it finds
network_set_header_keep(r, header, value) ==
    LET i == HeaderIndex(r.res_headers, header)
    IN  IF i > 0
        THEN r
        ELSE [r EXCEPT !.res_headers =
                          << [key |-> header, value |-> value] >> \o @]

\* network_set_header: replace the value of the first entry with the key,
\* or put a new entry in front
network_set_header(r, header, value) ==
    LET i == HeaderIndex(r.res_headers, header)
    IN  IF i > 0
        THEN [r EXCEPT !.res_headers[i].value = value]
        ELSE [r EXCEPT !.res_headers =
                          << [key |-> header, value |-> value] >> \o @]

RECURSIVE write_headers(_, _, _, _)
\* the while loop of network_write_head over res_headers from entry i on
write_headers(c, fd, headers, i) ==
    IF i > Len(headers) THEN [conn |-> c, n |-> 0]
    ELSE LET w    == network_write(c, fd, HeaderLine(headers[i]))
             rest == write_headers(w.conn, fd, headers, i + 1)
         IN  [conn |-> rest.conn, n |-> w.n + rest.n]

\* network_write_head without the test of res_status
network_write_head_again(r, c, status, message) ==
    LET r1 == [r EXCEPT !.res_status = status]
        w1 == network_write(c, r1.conn_fd, StatusLine(status, message))
        w2 == write_headers(w1.conn, r1.conn_fd, r1.res_headers, 1)
        w3 == network_write(w2.conn, r1.conn_fd, BlankLine)
    IN  [req |-> r1, conn |-> w3.conn, n |-> w1.n + w2.n + w3.n]

\* network_write_head; the result carries the request, the connection and
\* the returned int
network_write_head(r, c, status, message) ==
    IF r.res_status # 0 THEN [req |-> r, conn |-> c, n |-> -1]
    ELSE LET r1 == [r EXCEPT !.res_status = status]
             w1 == network_write(c, r1.conn_fd, StatusLine(status, message))
             w2 == write_headers(w1.conn, r1.conn_fd, r1.res_headers, 1)
             w3 == network_write(w2.conn, r1.conn_fd, BlankLine)
         IN  [req |-> r1, conn |-> w3.conn, n |-> w1.n + w2.n + w3.n]

\* network_write_body
network_write_body(r, c, len) ==
    LET first == r.res_status = 0
        r1 == IF first
              THEN network_set_header(r, "Content-Length", Decimal(len))
              ELSE r
        h  == IF first THEN network_write_head(r1, c, 200, "OK")
              ELSE [req |-> r1, conn |-> c, n |-> 0]
    IN  IF first /\ h.n < 0
        THEN [req |-> h.req, conn |-> h.conn, n |-> -1]
        ELSE LET w == network_write(h.conn, h.req.conn_fd, BodyBytes(len))
             IN  [req  |-> [h.req EXCEPT !.conn_fd = -1],
                  conn |-> close(w.conn, h.req.conn_fd),
                  n    |-> h.n + w.n]

\* the handler's calls.  left and cut are the peer's part in one call: how
\* many buffers it still takes and whether the failing write got a part out
Lefts == 0..(MaxCalls + 3)

Arm(c, left, cut) == [c EXCEPT !.left = left, !.cut = cut]
Disarm(c) == [c EXCEPT !.left = 0, !.cut = FALSE]

HandlerCall == http_calls < MaxCalls

\* network_set_header(req, key, value)
SetHeader(key, value) ==
    /\ HandlerCall
    /\ req' = network_set_header(req, key, value)
    /\ http_ret' = [op |-> "network_set_header", n |-> 0]
    /\ http_calls' = http_calls + 1
    /\ UNCHANGED << conn, requests, listener, SchedVars, arena_vars,
                    io_vars >>

\* network_write_head(req, status, message)
WriteHead(status, left, cut) ==
    /\ HandlerCall
    /\ LET r == network_write_head(req, Arm(conn, left, cut), status,
                                   Message(status))
       IN  /\ req' = r.req
           /\ conn' = Disarm(r.conn)
           /\ http_ret' = [op |-> "network_write_head", n |-> r.n]
    /\ http_calls' = http_calls + 1
    /\ UNCHANGED << requests, listener, SchedVars, arena_vars,
                    io_vars >>

\* network_write_body(req, body, len)
WriteBody(len, left, cut) ==
    /\ HandlerCall
    /\ LET r == network_write_body(req, Arm(conn, left, cut), len)
       IN  /\ req' = r.req
           /\ conn' = Disarm(r.conn)
           /\ http_ret' = [op |-> "network_write_body", n |-> r.n]
    /\ http_calls' = http_calls + 1
    /\ UNCHANGED << requests, listener, SchedVars, arena_vars,
                    io_vars >>

NextHttp ==
    \/ \E key \in HeaderKeys, value \in HeaderValues : SetHeader(key, value)
    \/ \E status \in Statuses, left \in Lefts, cut \in BOOLEAN :
          WriteHead(status, left, cut)
    \/ \E len \in BodyLens, left \in Lefts, cut \in BOOLEAN :
          WriteBody(len, left, cut)

\* ------------------------------------------------- the request parser
\* bytes are one-character strings, buffers are sequences of bytes
CR == "\r"
LF == "\n"
SP == " "
Colon == ":"
CRLF == << CR, LF >>
\* the delimiter network_parse_http hands to network_read_until
EndOfPrologue == CRLF \o CRLF
\* the size argument of that call, sizeof(buf) - 1
ReadSize == BufSize - 1

Upper == << "A", "B", "C", "D", "E", "F", "G", "H", "I", "J", "K", "L", "M",
            "N", "O", "P", "Q", "R", "S", "T", "U", "V", "W", "X", "Y", "Z" >>
Lower == << "a", "b", "c", "d", "e", "f", "g", "h", "i", "j", "k", "l", "m",
            "n", "o", "p", "q", "r", "s", "t", "u", "v", "w", "x", "y", "z" >>

tolower(ch) ==
    IF \E i \in 1..Len(Upper) : Upper[i] = ch
    THEN Lower[CHOOSE i \in 1..Len(Upper) : Upper[i] = ch]
    ELSE ch

\* strcasecmp of two byte strings: 0 when they are equal up to letter case
strcasecmp_bytes(a, b) ==
    IF Len(a) = Len(b) /\ \A i \in 1..Len(a) : tolower(a[i]) = tolower(b[i])
    THEN 0 ELSE 1

Minimum(S) == CHOOSE x \in S : \A y \in S : x <= y

\* strstr: the index at which needle first occurs in hay, 0 for NULL
strstr(hay, needle) ==
    LET at == {i \in 1..(Len(hay) - Len(needle) + 1) :
                  SubSeq(hay, i, i + Len(needle) - 1) = needle}
    IN  IF at = {} THEN 0 ELSE Minimum(at)

\* strchr, likewise
strchr(s, ch) ==
    LET at == {i \in 1..Len(s) : s[i] = ch}
    IN  IF at = {} THEN 0 ELSE Minimum(at)

RECURSIVE strtok_r(_, _)
\* the tokens successive strtok_r calls return for s: strtok_r skips every
\* leading byte that is in delims, the token runs to the next such byte
strtok_r(s, delims) ==
    IF s = << >> THEN << >>
    ELSE IF Head(s) \in delims THEN strtok_r(Tail(s), delims)
    ELSE LET stops == {i \in 1..Len(s) : s[i] \in delims}
             n == IF stops = {} THEN Len(s) ELSE Minimum(stops) - 1
         IN  << SubSeq(s, 1, n) >> \o strtok_r(SubSeq(s, n + 2, Len(s)), delims)

RECURSIVE skip_spaces(_)
\* while (*value == ' ') value++
skip_spaces(s) ==
    IF s # << >> /\ Head(s) = SP THEN skip_spaces(Tail(s)) ELSE s

IsDigit(ch) == \E i \in 1..Len(Digit) : Digit[i] = ch
DigitValue(ch) == (CHOOSE i \in 1..Len(Digit) : Digit[i] = ch) - 1

RECURSIVE atoi_digits(_, _)
atoi_digits(s, acc) ==
    IF s = << >> \/ ~ IsDigit(Head(s)) THEN acc
    ELSE atoi_digits(Tail(s), acc * 10 + DigitValue(Head(s)))

\* atoi: white space, an optional sign, then the digits there are
atoi(s) ==
    LET t == skip_spaces(s)
    IN  IF t # << >> /\ Head(t) = "-" THEN 0 - atoi_digits(Tail(t), 0)
        ELSE IF t # << >> /\ Head(t) = "+" THEN atoi_digits(Tail(t), 0)
        ELSE atoi_digits(t, 0)

ContentLength == << "C", "o", "n", "t", "e", "n", "t", "-",
                    "L", "e", "n", "g", "t", "h" >>

\* network_parse_http returning NULL
NoRequest ==
    [ret |-> "NULL", method |-> << >>, path |-> << >>,
     req_headers |-> << >>, content_length |-> 0]

RECURSIVE parse_headers(_, _, _)
\* the while loop of network_parse_http over the lines after the first
parse_headers(lines, i, r) ==
    IF i > Len(lines) THEN r
    ELSE IF Len(lines[i]) = 0 THEN r
    ELSE LET line  == lines[i]
             colon == strchr(line, Colon)
             key   == SubSeq(line, 1, colon - 1)
             value == skip_spaces(SubSeq(line, colon + 1, Len(line)))
         IN  IF colon = 0 THEN parse_headers(lines, i + 1, r)
             ELSE parse_headers(lines, i + 1,
                     [r EXCEPT
                        !.req_headers =
                            << [key |-> key, value |-> value] >> \o @,
                        !.content_length =
                            IF strcasecmp_bytes(key, ContentLength) = 0
                            THEN atoi(value) ELSE @])

\* network_parse_http from the return of network_read_until on: b is what
\* network_read_until left in buf, its length the returned n
parse_request(b) ==
    IF Len(b) <= 0 THEN NoRequest
    ELSE LET lines == strtok_r(b, {CR, LF})
         IN  IF lines = << >> THEN NoRequest
             ELSE LET words == strtok_r(lines[1], {SP})
                  IN  IF Len(words) < 2 THEN NoRequest
                      ELSE parse_headers(lines, 2,
                              [ret |-> "req", method |-> words[1],
                               path |-> words[2], req_headers |-> << >>,
                               content_length |-> 0])

\* n copies of a byte
Repeat(ch, n) == [i \in 1..n |-> ch]

RequestLine == << "G", "E", "T", SP, "/", SP, "H" >> \o CRLF

\* the request of the header test: content-LENGTH: 5 and the body 12345
LengthRequest ==
    RequestLine
    \o << "c", "o", "n", "t", "e", "n", "t", "-", "L", "E", "N", "G", "T", "H",
          Colon, SP, "5" >> \o CRLF
    \o CRLF
    \o << "1", "2", "3", "4", "5" >>

\* a request whose body of 16 bytes reads like a header line
HeaderBodyRequest ==
    RequestLine
    \o ContentLength \o << Colon, SP, "1", "6" >> \o CRLF
    \o CRLF
    \o ContentLength \o << Colon, "7" >>

\* a request line without a path
NoPathRequest == << "G", "E", "T" >> \o CRLF \o CRLF

\* a prologue whose one header line alone is longer than the buffer
LongRequest ==
    RequestLine \o << "X", Colon, SP >> \o Repeat("x", BufSize) \o CRLF \o CRLF

\* how many bytes may arrive at once
SendSizes == 1..Len(LongRequest)

\* what clients send; the empty one connects and closes
Requests ==
    {LengthRequest, HeaderBodyRequest, NoPathRequest, LongRequest, << >>}

InitIo ==
    /\ wire = << >>
    /\ sent = << >>
    /\ sock = << >>
    /\ fin = FALSE
    /\ parse_buf = << >>
    /\ parse_pc = "accept"
    /\ parsed = NoRequest
    /\ body_got = << >>
    /\ build = "app"
    /\ pending = 0
    /\ served = << >>

\* read(fd, buf, count) on the non-blocking socket: the bytes it returns
read(count) == SubSeq(sock, 1, IF Len(sock) < count THEN Len(sock) ELSE count)

\* the rest of network_parse_http once network_read_until has returned b
ParseReturns(b) ==
    /\ parsed' = parse_request(b)
    /\ parse_pc' = IF parse_request(b).ret = "req" THEN "handler"
                   ELSE "rejected"

\* what the parser does not touch
OtherVars == << SchedVars, arena_vars, http_vars, build, pending, served,
               route_vars, write_vars,
               read_vars, flow_vars, started >>

\* accept returns the connection of a client that is going to send request
Connect(request) ==
    /\ parse_pc = "accept"
    /\ wire' = request
    /\ sent' = request
    /\ parse_pc' = "network_read_until"
    /\ UNCHANGED << sock, fin, parse_buf, parsed, body_got >>
    /\ UNCHANGED OtherVars

\* the client's next k bytes arrive
ClientSend(k) ==
    /\ parse_pc # "accept"
    /\ k <= Len(wire)
    /\ sock' = sock \o SubSeq(wire, 1, k)
    /\ wire' = SubSeq(wire, k + 1, Len(wire))
    /\ UNCHANGED << sent, fin, parse_buf, parse_pc, parsed, body_got >>
    /\ UNCHANGED OtherVars

\* the client, having sent everything, shuts its side down
ClientClose ==
    /\ parse_pc # "accept"
    /\ wire = << >> /\ ~ fin
    /\ fin' = TRUE
    /\ UNCHANGED << wire, sent, sock, parse_buf, parse_pc, parsed, body_got >>
    /\ UNCHANGED OtherVars

\* one pass of the loop of network_read_until(fd, buf, size, delim) with b in
\* buf: whether the loop goes on, waits or is left, what is then in buf and
\* in the socket, the value returned and the index the NUL is written to
network_read_until_pass_eof(b, size, delim) ==
    IF ~ (Len(b) < size - 1)
    THEN [out |-> "return", buf |-> b, sock |-> sock, ret |-> Len(b),
          nul |-> {Len(b)}]
    ELSE LET got == read(size - 1 - Len(b))
             nb  == b \o got
         IN  IF read_error
             THEN [out |-> "error", buf |-> b, sock |-> sock, ret |-> -1,
                   nul |-> {}]
             ELSE IF got # << >>
             THEN [out  |-> IF Len(nb) >= Len(delim) /\ strstr(nb, delim) # 0
                            THEN "return" ELSE "again",
                   buf  |-> nb,
                   sock |-> SubSeq(sock, Len(got) + 1, Len(sock)),
                   ret  |-> Len(nb),
                   nul  |-> {Len(nb)}]
             ELSE IF fin
             THEN [out |-> "return", buf |-> b, sock |-> sock, ret |-> -1,
                   nul |-> {Len(b)}]
             ELSE [out |-> "EAGAIN", buf |-> b, sock |-> sock, ret |-> 0,
                   nul |-> {}]

network_read_until_pass(b, size, delim) ==
    IF ~ (Len(b) < size - 1)
    THEN [out |-> "return", buf |-> b, sock |-> sock, ret |-> Len(b),
          nul |-> {Len(b)}]
    ELSE LET got == read(size - 1 - Len(b))
             nb  == b \o got
         IN  IF read_error
             THEN [out |-> "error", buf |-> b, sock |-> sock, ret |-> -1,
                   nul |-> {}]
             ELSE IF got # << >>
             THEN [out  |-> IF Len(nb) >= Len(delim) /\ strstr(nb, delim) # 0
                            THEN "return" ELSE "again",
                   buf  |-> nb,
                   sock |-> SubSeq(sock, Len(got) + 1, Len(sock)),
                   ret  |-> Len(nb),
                   nul  |-> {Len(nb)}]
             ELSE IF fin
             THEN [out |-> "return", buf |-> b, sock |-> sock, ret |-> Len(b),
                   nul |-> {Len(b)}]
             ELSE [out |-> "EAGAIN", buf |-> b, sock |-> sock, ret |-> 0,
                   nul |-> {}]

\* the call network_parse_http makes
read_until_pass(b) ==
    LET pass == network_read_until_pass(b, ReadSize, EndOfPrologue)
    IN  [out |-> pass.out, buf |-> pass.buf, sock |-> pass.sock]

\* one pass of the loop of network_read(fd, buf, n) with b in buf
network_read_pass(b, n) ==
    IF ~ (Len(b) < n)
    THEN [out |-> "return", buf |-> b, sock |-> sock, ret |-> Len(b),
          nul |-> {Len(b)}]
    ELSE LET got == read(n - Len(b))
             nb  == b \o got
         IN  IF read_error
             THEN [out |-> "error", buf |-> b, sock |-> sock, ret |-> -1,
                   nul |-> {}]
             ELSE IF got # << >>
             THEN [out  |-> IF Len(nb) < n THEN "again" ELSE "return",
                   buf  |-> nb,
                   sock |-> SubSeq(sock, Len(got) + 1, Len(sock)),
                   ret  |-> Len(nb),
                   nul  |-> IF Len(nb) < n THEN {} ELSE {Len(nb)}]
             ELSE IF fin \/ Len(b) > 0
             THEN [out |-> "return", buf |-> b, sock |-> sock, ret |-> Len(b),
                   nul |-> {Len(b)}]
             ELSE [out |-> "EAGAIN", buf |-> b, sock |-> sock, ret |-> 0,
                   nul |-> {}]

\* one pass of the loop of network_read_until, and with the pass that leaves
\* the loop the rest of network_parse_http
ReadUntil ==
    /\ parse_pc = "network_read_until"
    /\ LET pass == read_until_pass(parse_buf)
       IN  /\ sock' = pass.sock
           /\ parse_buf' = pass.buf
           /\ IF pass.out = "return" THEN ParseReturns(pass.buf)
              ELSE /\ parse_pc' = IF pass.out = "EAGAIN" THEN "runtime_read"
                                  ELSE parse_pc
                   /\ UNCHANGED parsed
    /\ UNCHANGED << wire, sent, fin, body_got >>
    /\ UNCHANGED OtherVars

\* runtime_read(fd) returns to network_read_until: the fd is readable
ReadUntilWake ==
    /\ parse_pc = "runtime_read"
    /\ sock # << >> \/ fin
    /\ parse_pc' = "network_read_until"
    /\ UNCHANGED << wire, sent, sock, fin, parse_buf, parsed, body_got >>
    /\ UNCHANGED OtherVars

\* the handler reads the body: network_read(conn_fd, body, content_length),
\* called again for the rest while it returns a part; one pass of its loop
HandlerRead ==
    /\ parse_pc = "handler"
    /\ LET want == parsed.content_length - Len(body_got)
           got  == read(want)
       IN  IF want <= 0
           THEN /\ parse_pc' = "served"
                /\ UNCHANGED << sock, body_got >>
           ELSE IF got # << >>
           THEN /\ sock' = SubSeq(sock, Len(got) + 1, Len(sock))
                /\ body_got' = body_got \o got
                /\ UNCHANGED parse_pc
           ELSE IF fin
           THEN /\ parse_pc' = "served"
                /\ UNCHANGED << sock, body_got >>
           ELSE /\ parse_pc' = "handler_read"
                /\ UNCHANGED << sock, body_got >>
    /\ UNCHANGED << wire, sent, fin, parse_buf, parsed >>
    /\ UNCHANGED OtherVars

\* runtime_read(fd) returns to network_read
HandlerWake ==
    /\ parse_pc = "handler_read"
    /\ sock # << >> \/ fin
    /\ parse_pc' = "handler"
    /\ UNCHANGED << wire, sent, sock, fin, parse_buf, parsed, body_got >>
    /\ UNCHANGED OtherVars

NextParse ==
    \/ \E request \in Requests : Connect(request)
    \/ \E k \in SendSizes : ClientSend(k)
    \/ ClientClose
    \/ ReadUntil
    \/ ReadUntilWake
    \/ HandlerRead
    \/ HandlerWake

\* --------------------------------------------- lite/2-network.h: the router
GET == << "G", "E", "T" >>
Methods == {GET, << "g", "e", "t" >>, << "P", "U", "T" >>}
Paths == {<< "/", "a" >>, << "/", "A" >>, << "/", "b" >>}
Callbacks == {"first", "second"}

\* router.capacity grows by this many entries
RouterGrowth == 10

\* the static network_not_found_endpoint
network_not_found_endpoint ==
    [method |-> << >>, path |-> << >>, callback |-> "network_not_found"]

NoRoute == [method |-> << >>, path |-> << >>,
            endpoint |-> [method |-> << >>, path |-> << >>,
                          callback |-> "NULL"]]

InitRead ==
    /\ read_fn = "none"
    /\ read_size = 0
    /\ read_pc = "idle"
    /\ read_ret = 0
    /\ read_buf = << >>
    /\ read_nul = {}
    /\ read_error = FALSE

InitFlow ==
    /\ writer = -1
    /\ would_blocks = 0
    /\ started = 0

InitRoute ==
    /\ router = [capacity |-> 0, endpoints |-> << >>]
    /\ routed = NoRoute

\* _network_router_init: room for one more entry
_network_router_init(rt) ==
    IF Len(rt.endpoints) >= rt.capacity
    THEN [rt EXCEPT !.capacity = @ + RouterGrowth]
    ELSE rt

\* network_get without the scheduler's part: the entry goes to the end
router_append(rt, path, callback) ==
    [_network_router_init(rt) EXCEPT
        !.endpoints = Append(@, [method |-> GET, path |-> path,
                                 callback |-> callback])]

\* the test of an endpoint in _network_lookup_endpoint: both comparisons
\* are strcasecmp
endpoint_matches(endpoint, method, path) ==
    /\ strcasecmp_bytes(endpoint.method, method) = 0
    /\ strcasecmp_bytes(endpoint.path, path) = 0

RECURSIVE lookup_from(_, _, _, _)
\* the for loop of _network_lookup_endpoint from index i on (i counts from 1)
lookup_from(rt, method, path, i) ==
    IF i > Len(rt.endpoints) THEN network_not_found_endpoint
    ELSE IF endpoint_matches(rt.endpoints[i], method, path)
    THEN rt.endpoints[i]
    ELSE lookup_from(rt, method, path, i + 1)

_network_lookup_endpoint(rt, method, path) == lookup_from(rt, method, path, 1)

TextPlain == << "t", "e", "x", "t", "/", "p", "l", "a", "i", "n" >>
NotFoundBody == << "n", "o", "t", SP, "f", "o", "u", "n", "d" >>

\* network_not_found: the header, the head with 404, the body
network_not_found(r, c) ==
    LET r1 == network_set_header(r, "Content-Type", TextPlain)
        h  == network_write_head(r1, c, 404, "Not Found")
    IN  network_write_body(h.req, h.conn, Len(NotFoundBody))

\* ------------------------------------------------------- network_write
\* One call of network_write(fd, buf, size) on a connection whose send
\* buffer holds SendBuf bytes; the peer takes bytes out of it or resets the
\* connection.
WriteBuffers ==
    {<< >>, << "a" >>, << "a", "b", "c" >>, << "a", "a", "b", "a" >>}

InitWrite ==
    /\ write_buf = << >>
    /\ total_written = 0
    /\ write_pc = "idle"
    /\ write_ret = 0
    /\ delivered = << >>
    /\ space = SendBuf
    /\ write_error = FALSE

\* the loop of network_write that returns after the first write
network_write_pass_once(buf, total, n) ==
    [total_written |-> total + n, out |-> "return"]

\* the loop of network_write after write has returned n >= 0 with total
\* bytes written before: total_written += n and the test of the while
network_write_pass(buf, total, n) ==
    [total_written |-> total + n,
     out |-> IF total + n < Len(buf) THEN "again" ELSE "return"]

\* the bytes write(fd, buf + total_written, size - total_written) hands to
\* the descriptor when it returns n
written(buf, total, n) == SubSeq(buf, total + 1, total + n)

\* ----------------------------------------------------------------- actions
\* The statics of lines 75-80: both tables start with count 1, slot 0 being
\* the host with id 0 and no arena yet (the values the lazy initialisation
\* in runtime_alloc writes).
Init ==
    /\ runtime_fibers = << [memory |-> NULL] >>
    /\ runtime_running_fibers = << 0 >>
    /\ runtime_waiting_fibers = << >>
    /\ runtime_stopped_fibers = << >>
    /\ runtime_polls = << >>
    /\ runtime_current_fiber = 0
    /\ pc = "run"
    /\ host_pc = "user"
    /\ ready_fds = {}
    /\ poll_call = NoPoll
    /\ wait_cond = << >>
    /\ yield_window = << >>
    /\ plan = << >>
    /\ work = << >>
    /\ trace = << >>
    /\ InitArena
    /\ InitRequest
    /\ InitIo
    /\ InitRoute
    /\ InitWrite
    /\ InitRead
    /\ InitFlow

\* the fiber whose code is executing
Executing == runtime_running_fibers[runtime_current_fiber + 1]

\* user code of the executing fiber may call into the runtime
UserCode == pc = "run" /\ (Executing = 0 => host_pc = "user")

\* the last n elements of a sequence
LastN(seq, n) ==
    IF Len(seq) <= n THEN seq ELSE SubSeq(seq, Len(seq) - n + 1, Len(seq))

\* write a scheduler value back; wc is the wait-condition map and win the
\* yield window after the operation
Commit(s, wc, win) ==
    /\ runtime_fibers' = s.fibers
    /\ runtime_running_fibers' = s.running
    /\ runtime_waiting_fibers' = s.waiting
    /\ runtime_stopped_fibers' = s.stopped
    /\ runtime_polls' = s.polls
    /\ runtime_current_fiber' = s.current
    /\ pc' = s.pc
    /\ host_pc' = s.host_pc
    /\ poll_call' = s.poll_call
    /\ wait_cond' = [id \in Range(s.waiting) |-> wc[id]]
    /\ yield_window' = win

\* the window after a runtime_yield that took the scheduler from s to t
WindowAfterYield(s, t) ==
    IF Len(s.waiting) = 0 /\ t.pc = "run"
    THEN LastN(Append(yield_window, runtime_id(t)), Len(t.running))
    ELSE << >>

\* what runtime_start leaves alone outside the scheduler
BesideStart == << arena_vars, http_vars, wire, sent, sock, fin, parse_buf,
                 parse_pc, parsed, body_got, build, pending, served,
                 route_vars, write_vars, read_vars, flow_vars >>

Start ==
    /\ UserCode
    /\ Len(runtime_stopped_fibers) > 0 \/ Len(runtime_fibers) < MaxFibers
    /\ Commit(runtime_start(Sched), wait_cond, << >>)
    /\ started' = Len(runtime_stopped_fibers)
    /\ UNCHANGED << ready_fds, plan, work, trace, BesideStart >>

Alloc(size) ==
    /\ UserCode
    /\ runtime_memory(Sched) = NULL
          \/ ArenaBlocks(runtime_memory(Sched)) < MaxBlocks
    /\ Commit(runtime_alloc(Sched, size), wait_cond, yield_window)
    /\ UNCHANGED << ready_fds, plan, work, trace, lib_vars >>

Yield ==
    /\ UserCode
    /\ LET t == _runtime_yield(Sched)
       IN  Commit(t, wait_cond, WindowAfterYield(Sched, t))
    /\ UNCHANGED << ready_fds, plan, work, trace, lib_vars >>

Read(fd) ==
    /\ UserCode
    /\ Commit(_runtime_read(Sched, fd),
              (Executing :> [fd |-> fd, events |-> POLLRDNORM]) @@ wait_cond,
              << >>)
    /\ UNCHANGED << ready_fds, plan, work, trace, lib_vars >>

Write(fd) ==
    /\ UserCode
    /\ Commit(_runtime_write(Sched, fd),
              (Executing :> [fd |-> fd, events |-> POLLWRNORM]) @@ wait_cond,
              << >>)
    /\ UNCHANGED << ready_fds, plan, work, trace, lib_vars >>

\* the entry function of the executing fiber returns into runtime_stop (or
\* the host calls runtime_stop)
Stop ==
    /\ UserCode
    /\ Commit(runtime_stop(Sched), wait_cond, << >>)
    /\ UNCHANGED << ready_fds, plan, work, trace, lib_vars >>

\* the host runs one pass of the loop of runtime_main
Main ==
    /\ pc = "run"
    /\ Executing = 0
    /\ LET t == runtime_main(Sched)
       IN  Commit(t, wait_cond, WindowAfterYield(Sched, t))
    /\ UNCHANGED << ready_fds, plan, work, trace, lib_vars >>

\* a blocked poll of runtime_next returns
PollReturnNext ==
    /\ pc = "poll_next"
    /\ ~ poll_blocks(Sched, -1)
    /\ Commit(runtime_next_resume(
                  runtime_wake(runtime_poll(
                      [Sched EXCEPT !.poll_call = poll_call]), 0)),
              wait_cond, << >>)
    /\ UNCHANGED << ready_fds, plan, work, trace, lib_vars >>

\* a blocked poll of runtime_stop returns
PollReturnStop ==
    /\ pc = "poll_stop"
    /\ ~ poll_blocks(Sched, -1)
    /\ Commit(runtime_stop_resume(
                  runtime_wake(runtime_poll(
                      [Sched EXCEPT !.poll_call = poll_call]), 0)),
              wait_cond, << >>)
    /\ UNCHANGED << ready_fds, plan, work, trace, lib_vars >>

Alive == pc \in {"run", "poll_next", "poll_stop"}

\* the peer makes an fd readable or writable
FdReady(fd, events) ==
    /\ Alive
    /\ <<fd, events>> \notin ready_fds
    /\ ready_fds' = ready_fds \cup {<<fd, events>>}
    /\ UNCHANGED << runtime_fibers, runtime_running_fibers,
                    runtime_waiting_fibers, runtime_stopped_fibers,
                    runtime_polls, runtime_current_fiber, pc, host_pc,
                    poll_call, wait_cond, yield_window, plan, work, trace,
                    lib_vars >>

\* the data is consumed or the socket buffer fills up
FdIdle(fd, events) ==
    /\ Alive
    /\ <<fd, events>> \in ready_fds
    /\ ready_fds' = ready_fds \ {<<fd, events>>}
    /\ UNCHANGED << runtime_fibers, runtime_running_fibers,
                    runtime_waiting_fibers, runtime_stopped_fibers,
                    runtime_polls, runtime_current_fiber, pc, host_pc,
                    poll_call, wait_cond, yield_window, plan, work, trace,
                    lib_vars >>

Next ==
    \/ Start
    \/ Yield
    \/ \E fd \in Fds : Read(fd)
    \/ \E fd \in Fds : Write(fd)
    \/ Stop
    \/ Main
    \/ PollReturnNext
    \/ PollReturnStop
    \/ \E fd \in Fds, events \in Events : FdReady(fd, events)
    \/ \E fd \in Fds, events \in Events : FdIdle(fd, events)

\* fibers that only use the scheduler
Spec == Init /\ [][Next]_vars

NextAlloc ==
    \/ Next
    \/ \E size \in AllocSizes : Alloc(size)

\* fibers that also allocate from their arenas
AllocSpec == Init /\ [][NextAlloc]_vars

\* what the code of the executing fiber can do
FiberStep ==
    \/ Start
    \/ Yield
    \/ \E fd \in Fds : Read(fd)
    \/ \E fd \in Fds : Write(fd)
    \/ Stop
    \/ Main

\* the peer makes ready an fd that a blocked poll is waiting for
PeerUnblocks ==
    /\ pc \in {"poll_next", "poll_stop"}
    /\ \E i \in 1..Len(runtime_polls) :
          FdReady(runtime_polls[i].fd, runtime_polls[i].events)

\* the executing fiber keeps going until it yields, waits or returns, a
\* blocked poll is eventually served by the peer, and a poll returns once one
\* of its records is ready
LiveSpec ==
    /\ Init /\ [][Next]_vars
    /\ WF_vars(FiberStep)
    /\ WF_vars(PeerUnblocks)
    /\ WF_vars(PollReturnNext)
    /\ WF_vars(PollReturnStop)

\* --------------------------------------- 4-network.h: network_listen
\* The host runs network_listen in a fiber (runtime_run) and calls
\* runtime_main; every accepted connection whose prologue parses gets a
\* handler fiber.  Sizes are scaled: a request record, a header entry or a
\* string is smaller than an arena page.
ServerFd == MaxFd
RecordSize == PageSize - 1
HeaderCounts == {0, 1}

RECURSIVE runtime_allocs(_, _)
\* n calls of runtime_alloc by the executing fiber
runtime_allocs(s, n) ==
    IF n = 0 THEN s ELSE runtime_allocs(runtime_alloc(s, RecordSize), n - 1)

\* network_parse_http of a prologue with method, path and nheaders header
\* lines: the request record and the two strings, then per header its entry,
\* key and value, all from runtime_alloc
network_parse_http(s, nheaders) == runtime_allocs(s, 3 + 3 * nheaders)

\* one pass of the accept loop that gets a connection: parse, then
\* runtime_start(handler, req)
network_listen(s, nheaders) == runtime_start(network_parse_http(s, nheaders))

ServerReadable == << ServerFd, POLLRDNORM >> \in ready_fds

\* main: runtime_run(network_listen(port, handler))
ListenRun ==
    /\ UserCode /\ Executing = 0
    /\ listener = -1
    /\ LET t == runtime_start(Sched)
       IN  /\ Commit(t, wait_cond, << >>)
           /\ listener' = t.running[Len(t.running)]
    /\ UNCHANGED << ready_fds, plan, work, trace, arena_vars, io_vars,
                    req, conn,
                    http_ret, http_calls, requests >>

\* main: runtime_main(), one pass of its loop
ListenMain == pc = "run" /\ listener # -1 /\ Main

\* accept returns a connection
ListenAccept(nheaders) ==
    /\ pc = "run" /\ Executing = listener
    /\ ServerReadable
    /\ Len(requests) < MaxConns
    /\ Len(runtime_stopped_fibers) > 0 \/ Len(runtime_fibers) < MaxFibers
    /\ LET t == network_listen(Sched, nheaders)
       IN  /\ Commit(t, wait_cond, << >>)
           /\ requests' = Append(requests,
                                 [owner   |-> Executing,
                                  handler |-> t.running[Len(t.running)]])
    /\ UNCHANGED << ready_fds, plan, work, trace, arena_vars, io_vars,
                    req, conn,
                    http_ret, http_calls, listener >>

\* accept would block: runtime_read(server_fd)
ListenWait ==
    /\ pc = "run" /\ Executing = listener
    /\ ~ ServerReadable
    /\ Read(ServerFd)

\* a handler waits for its connection or lets others run
HandlerYield == pc = "run" /\ Executing \notin {0, listener} /\ Yield

\* a handler returns into runtime_stop
HandlerReturn == pc = "run" /\ Executing \notin {0, listener} /\ Stop

NextListen ==
    \/ ListenRun
    \/ ListenMain
    \/ \E nheaders \in HeaderCounts : ListenAccept(nheaders)
    \/ ListenWait
    \/ HandlerYield
    \/ HandlerReturn
    \/ PollReturnNext
    \/ PollReturnStop
    \/ \E fd \in Fds, events \in Events : FdReady(fd, events)
    \/ \E fd \in Fds, events \in Events : FdIdle(fd, events)

\* the HTTP server
ListenSpec == Init /\ [][NextListen]_vars

\* ------------------------------------------------------ the accept loop
\* network_listen of source/app and of source/lite around the parser above.
\* The connection being parsed has the descriptor after the server's; the
\* kernel reports the server socket readable while a connection is pending
\* and the connection readable while it holds bytes or the client's FIN.
AcceptedFd == ServerFd + 1
Builds == {"app", "lite"}

\* the request of the accept-before-data test
GoodRequest == RequestLine \o CRLF
ServeRequests == {GoodRequest, NoPathRequest, << >>}

Readable(n, parsing, bytes, closed) ==
    (IF n > 0 THEN {<< ServerFd, POLLRDNORM >>} ELSE {})
    \cup (IF parsing /\ (bytes # << >> \/ closed)
          THEN {<< AcceptedFd, POLLRDNORM >>} ELSE {})

\* where the loop of network_listen begins: lite waits for the server
\* socket before every accept
LoopTop(b) == IF b = "lite" THEN "runtime_reading" ELSE "accept"

\* the listener fiber is executing at pos
ListenerAt(pos) ==
    /\ pc = "run"
    /\ listener # -1
    /\ Executing = listener
    /\ parse_pc = pos

\* runtime_read(fd) by the executing fiber
WaitRead(fd) ==
    Commit(_runtime_read(Sched, fd),
           (Executing :> [fd |-> fd, events |-> POLLRDNORM]) @@ wait_cond,
           << >>)

\* main: runtime_run(network_listen(..)) of the build b
ServeRun(b) ==
    /\ UserCode /\ Executing = 0
    /\ listener = -1
    /\ LET t == runtime_start(Sched)
       IN  /\ Commit(t, wait_cond, << >>)
           /\ listener' = t.running[Len(t.running)]
    /\ build' = b
    /\ parse_pc' = LoopTop(b)
    /\ UNCHANGED << ready_fds, plan, work, trace, arena_vars,
                    route_vars, write_vars,
                    read_vars, flow_vars, started,
                    req, conn,
                    http_ret, http_calls, requests, wire, sent, sock, fin,
                    parse_buf, parsed, body_got, pending, served >>

\* a client connects
ClientConnect ==
    /\ Alive
    /\ listener # -1
    /\ Len(served) + pending < MaxConns
    /\ pending' = pending + 1
    /\ ready_fds' = ready_fds \cup {<< ServerFd, POLLRDNORM >>}
    /\ UNCHANGED << runtime_fibers, runtime_running_fibers,
                    runtime_waiting_fibers, runtime_stopped_fibers,
                    runtime_polls, runtime_current_fiber, pc, host_pc,
                    poll_call, wait_cond, yield_window, plan, work, trace,
                    arena_vars, route_vars, write_vars,
                    read_vars, flow_vars, started,
                    http_vars, wire, sent, sock, fin, parse_buf,
                    parse_pc, parsed, body_got, build, served >>

\* the next k bytes of the client of the connection being parsed arrive
\* (k > 0), or its FIN once it has sent everything (k = 0)
ClientSends(k) ==
    /\ Alive
    /\ parse_pc = "network_read_until"
    /\ IF k = 0 THEN wire = << >> /\ ~ fin ELSE k <= Len(wire)
    /\ sock' = sock \o SubSeq(wire, 1, k)
    /\ wire' = SubSeq(wire, k + 1, Len(wire))
    /\ fin' = (fin \/ k = 0)
    /\ ready_fds' = ready_fds \cup {<< AcceptedFd, POLLRDNORM >>}
    /\ UNCHANGED << runtime_fibers, runtime_running_fibers,
                    runtime_waiting_fibers, runtime_stopped_fibers,
                    runtime_polls, runtime_current_fiber, pc, host_pc,
                    poll_call, wait_cond, yield_window, plan, work, trace,
                    arena_vars, route_vars, write_vars,
                    read_vars, flow_vars, started,
                    http_vars, sent, parse_buf, parse_pc, parsed,
                    body_got, build, pending, served >>

\* lite: runtime_reading(server_fd) at the top of the loop
LiteReading ==
    /\ ListenerAt("runtime_reading")
    /\ WaitRead(ServerFd)
    /\ parse_pc' = "accept"
    /\ UNCHANGED << ready_fds, plan, work, trace, arena_vars,
                    route_vars, write_vars,
                    read_vars, flow_vars, started,
                    http_vars,
                    wire, sent, sock, fin, parse_buf, parsed, body_got,
                    build, pending, served >>

\* accept fails with EAGAIN: app waits for the server socket, lite goes
\* back to the top of the loop
AcceptWouldBlock ==
    /\ ListenerAt("accept")
    /\ pending = 0
    /\ IF build = "app"
       THEN WaitRead(ServerFd) /\ UNCHANGED parse_pc
       ELSE /\ parse_pc' = LoopTop(build)
            /\ UNCHANGED << runtime_fibers, runtime_running_fibers,
                            runtime_waiting_fibers, runtime_stopped_fibers,
                            runtime_polls, runtime_current_fiber, pc,
                            host_pc, poll_call, wait_cond, yield_window >>
    /\ UNCHANGED << ready_fds, plan, work, trace, arena_vars,
                    route_vars, write_vars,
                    read_vars, flow_vars, started,
                    http_vars,
                    wire, sent, sock, fin, parse_buf, parsed, body_got,
                    build, pending, served >>

\* accept returns the connection of a client that is going to send request;
\* network_parse_http starts on it
Accept(request) ==
    /\ ListenerAt("accept")
    /\ pending > 0
    /\ Len(runtime_fibers) - Len(runtime_stopped_fibers) < 2 + MaxHandlers
    /\ pending' = pending - 1
    /\ wire' = request
    /\ sent' = request
    /\ sock' = << >>
    /\ fin' = FALSE
    /\ parse_buf' = << >>
    /\ parsed' = NoRequest
    /\ parse_pc' = "network_read_until"
    /\ served' = Append(served, [fd |-> "listener", handlers |-> 0,
                                 whole |-> FALSE])
    /\ ready_fds' = Readable(pending - 1, TRUE, << >>, FALSE)
    /\ UNCHANGED << runtime_fibers, runtime_running_fibers,
                    runtime_waiting_fibers, runtime_stopped_fibers,
                    runtime_polls, runtime_current_fiber, pc, host_pc,
                    poll_call, wait_cond, yield_window, plan, work, trace,
                    arena_vars, route_vars, write_vars,
                    read_vars, flow_vars, started,
                    http_vars, body_got, build >>

\* accept fails for a connection the client has reset in the backlog
\* (ECONNABORTED): app logs, lite prints, and network_listen returns, which
\* takes the fiber into runtime_stop
AcceptFails ==
    /\ ListenerAt("accept")
    /\ pending > 0
    /\ pending' = pending - 1
    /\ parse_pc' = "returned"
    /\ Commit(runtime_stop(IF build = "app" THEN runtime_logf(Sched)
                           ELSE Sched),
              wait_cond, << >>)
    /\ ready_fds' = Readable(pending - 1, FALSE, << >>, FALSE)
    /\ UNCHANGED << plan, work, trace, arena_vars, route_vars, write_vars,
                    read_vars, flow_vars, started,
                    http_vars, wire, sent,
                    sock, fin, parse_buf, parsed, body_got, build, served >>

\* the pass of the loop of network_read_until the listener makes next
Pass == read_until_pass(parse_buf)

\* network_read_until finds no data: app waits in runtime_read(conn_fd);
\* lite, whose accepted socket is a blocking one, stays in read
ReadWaits ==
    /\ ListenerAt("network_read_until")
    /\ Pass.out = "EAGAIN"
    /\ build = "app"
    /\ WaitRead(AcceptedFd)
    /\ UNCHANGED << ready_fds, plan, work, trace, lib_vars >>

\* network_read_until reads bytes that do not end the prologue
ReadMore ==
    /\ ListenerAt("network_read_until")
    /\ Pass.out = "again"
    /\ sock' = Pass.sock
    /\ parse_buf' = Pass.buf
    /\ ready_fds' = Readable(pending, TRUE, Pass.sock, fin)
    /\ UNCHANGED << runtime_fibers, runtime_running_fibers,
                    runtime_waiting_fibers, runtime_stopped_fibers,
                    runtime_polls, runtime_current_fiber, pc, host_pc,
                    poll_call, wait_cond, yield_window, plan, work, trace,
                    arena_vars, route_vars, write_vars,
                    read_vars, flow_vars, started,
                    http_vars, wire, sent, fin, parse_pc, parsed,
                    body_got, build, pending, served >>

\* network_read_until returns and network_parse_http returns NULL: app
\* closes the descriptor, lite keeps it, and the loop goes on.  p is the
\* pass that leaves the loop, r what network_parse_http returns
ParseFails ==
    /\ ListenerAt("network_read_until")
    /\ \E p \in {Pass} :
         /\ p.out = "return"
         /\ \E r \in {parse_request(p.buf)} :
              /\ r.ret = "NULL"
              /\ parsed' = r
         /\ sock' = p.sock
         /\ parse_buf' = p.buf
         /\ ready_fds' = Readable(pending, FALSE, p.sock, fin)
    /\ parse_pc' = LoopTop(build)
    /\ served' = [served EXCEPT ![Len(served)].fd =
                     IF build = "app" THEN "closed" ELSE @]
    /\ UNCHANGED << runtime_fibers, runtime_running_fibers,
                    runtime_waiting_fibers, runtime_stopped_fibers,
                    runtime_polls, runtime_current_fiber, pc, host_pc,
                    poll_call, wait_cond, yield_window, plan, work, trace,
                    arena_vars, route_vars, write_vars,
                    read_vars, flow_vars, started,
                    http_vars, wire, sent, fin, body_got, build,
                    pending >>

\* network_read_until returns and network_parse_http returns a request:
\* runtime_start(handler, req), and the loop goes on
ParseSpawns ==
    /\ ListenerAt("network_read_until")
    /\ \E p \in {Pass} :
         /\ p.out = "return"
         /\ \E r \in {parse_request(p.buf)} :
              /\ r.ret = "req"
              /\ parsed' = r
              /\ LET t == network_listen(Sched, Len(r.req_headers))
                 IN  /\ Commit(t, wait_cond, << >>)
                     /\ requests' =
                            Append(requests,
                                   [owner   |-> Executing,
                                    handler |-> t.running[Len(t.running)]])
         /\ sock' = p.sock
         /\ parse_buf' = p.buf
         /\ ready_fds' = Readable(pending, FALSE, p.sock, fin)
         /\ served' = [served EXCEPT
                          ![Len(served)].fd = "handler",
                          ![Len(served)].handlers = @ + 1,
                          ![Len(served)].whole =
                              strstr(p.buf, EndOfPrologue) # 0]
    /\ parse_pc' = LoopTop(build)
    /\ UNCHANGED << plan, work, trace, arena_vars, route_vars, write_vars,
                    read_vars, flow_vars, started,
                    req, conn, http_ret,
                    http_calls, listener, wire, sent, fin, body_got, build,
                    pending >>

NextServe ==
    \/ \E b \in Builds : ServeRun(b)
    \/ ListenMain
    \/ ClientConnect
    \/ \E k \in 0..Len(GoodRequest) : ClientSends(k)
    \/ LiteReading
    \/ AcceptWouldBlock
    \/ \E request \in ServeRequests : Accept(request)
    \/ AcceptFails
    \/ ReadWaits
    \/ ReadMore
    \/ ParseFails
    \/ ParseSpawns
    \/ HandlerYield
    \/ HandlerReturn
    \/ PollReturnNext
    \/ PollReturnStop

\* the HTTP server and its clients
ServeSpec == Init /\ [][NextServe]_vars

\* ------------------------------------------------ the router's callers
\* network_get(path, callback), called by the host before network_listen
NetworkGet(path, callback) ==
    /\ UserCode /\ Executing = 0
    /\ routed = NoRoute
    /\ Len(router.endpoints) < MaxRoutes
    /\ Commit(runtime_alloc(Sched, RecordSize), wait_cond, yield_window)
    /\ router' = router_append(router, path, callback)
    /\ UNCHANGED << ready_fds, plan, work, trace, arena_vars, http_vars,
                    wire, sent, sock, fin, parse_buf, parse_pc, parsed,
                    body_got, build, pending, served, routed, write_vars,
                    read_vars, flow_vars, started >>

\* network_listen with a parsed request in hand: the lookup, then
\* runtime_start(endpoint->callback, req)
Route(method, path) ==
    /\ UserCode
    /\ routed = NoRoute
    /\ Commit(runtime_start(Sched), wait_cond, << >>)
    /\ routed' = [method |-> method, path |-> path,
                  endpoint |-> _network_lookup_endpoint(router, method, path)]
    /\ UNCHANGED << ready_fds, plan, work, trace, arena_vars, http_vars,
                    wire, sent, sock, fin, parse_buf, parse_pc, parsed,
                    body_got, build, pending, served, router, write_vars,
                    read_vars, flow_vars, started >>

\* the fiber started on network_not_found runs it
NotFound(left, cut) ==
    /\ routed.endpoint.callback = "network_not_found"
    /\ http_calls = 0
    /\ LET r == network_not_found(req, Arm(conn, left, cut))
       IN  /\ req' = r.req
           /\ conn' = Disarm(r.conn)
           /\ http_ret' = [op |-> "network_not_found", n |-> r.n]
    /\ http_calls' = 1
    /\ UNCHANGED << requests, listener, SchedVars, arena_vars,
                    wire, sent, sock, fin, parse_buf, parse_pc, parsed,
                    body_got, build, pending, served, route_vars,
                    write_vars,
                    read_vars, flow_vars, started >>

\* the fiber started on a registered callback runs it
Callback ==
    /\ routed.endpoint.callback \in Callbacks
    /\ http_calls = 0
    /\ http_ret' = [op |-> routed.endpoint.callback, n |-> 0]
    /\ http_calls' = 1
    /\ UNCHANGED << req, conn, requests, listener, SchedVars, arena_vars,
                    io_vars >>

NextRoute ==
    \/ \E path \in Paths, callback \in Callbacks : NetworkGet(path, callback)
    \/ \E method \in Methods, path \in Paths : Route(method, path)
    \/ \E left \in Lefts, cut \in BOOLEAN : NotFound(left, cut)
    \/ Callback

\* the router of source/lite with one request
RouteSpec == Init /\ [][NextRoute]_vars

\* ------------------------------------------- network_write and its peer
\* what a call of network_write does not touch
BesideWrite == << arena_vars, http_vars, wire, sent, sock, fin, parse_buf,
                 parse_pc, parsed, body_got, build, pending, served,
                 route_vars,
                 read_vars, flow_vars, started >>

\* network_write(fd, buf, size) is called: total_written = 0 and the first
\* test of the while
NetworkWrite(buf) ==
    /\ write_pc = "idle"
    /\ write_buf' = buf
    /\ total_written' = 0
    /\ delivered' = << >>
    /\ IF 0 < Len(buf)
       THEN write_pc' = "write" /\ UNCHANGED write_ret
       ELSE write_pc' = "returned" /\ write_ret' = 0
    /\ UNCHANGED << space, write_error, SchedVars, BesideWrite >>

\* write returns n > 0, the bytes the send buffer had room for
WriteSome(n) ==
    /\ write_pc = "write"
    /\ ~ write_error
    /\ n <= space /\ n <= Len(write_buf) - total_written
    /\ delivered' = delivered \o written(write_buf, total_written, n)
    /\ space' = space - n
    /\ LET pass == network_write_pass(write_buf, total_written, n)
       IN  /\ total_written' = pass.total_written
           /\ IF pass.out = "return"
              THEN write_pc' = "returned" /\ write_ret' = pass.total_written
              ELSE UNCHANGED << write_pc, write_ret >>
    /\ UNCHANGED << write_buf, write_error, SchedVars, BesideWrite >>

\* write fails with EAGAIN: runtime_write(fd), and the loop continues when
\* the fiber is resumed
WriteWouldBlock ==
    /\ write_pc = "write"
    /\ ~ write_error
    /\ space = 0
    /\ write_pc' = "runtime_write"
    /\ UNCHANGED << write_buf, total_written, write_ret, delivered, space,
                    write_error, SchedVars, BesideWrite >>

\* runtime_write(fd) returns: poll has reported the descriptor
WriteWake ==
    /\ write_pc = "runtime_write"
    /\ space > 0 \/ write_error
    /\ write_pc' = "write"
    /\ UNCHANGED << write_buf, total_written, write_ret, delivered, space,
                    write_error, SchedVars, BesideWrite >>

\* write fails with EPIPE or ECONNRESET: runtime_logf, return -1
WriteFails ==
    /\ write_pc = "write"
    /\ write_error
    /\ UserCode
    /\ Commit(runtime_logf(Sched), wait_cond, yield_window)
    /\ write_pc' = "returned"
    /\ write_ret' = -1
    /\ UNCHANGED << write_buf, total_written, delivered, space, write_error,
                    ready_fds, plan, work, trace, BesideWrite >>

\* the peer takes n bytes out of the send buffer
PeerReads(n) ==
    /\ write_pc # "idle"
    /\ n <= SendBuf - space
    /\ space' = space + n
    /\ UNCHANGED << write_buf, total_written, write_pc, write_ret, delivered,
                    write_error, SchedVars, BesideWrite >>

\* the peer resets the connection
PeerResets ==
    /\ write_pc # "idle"
    /\ ~ write_error
    /\ write_error' = TRUE
    /\ UNCHANGED << write_buf, total_written, write_pc, write_ret, delivered,
                    space, SchedVars, BesideWrite >>

\* the caller is back and may call again
WriteReturned ==
    /\ write_pc = "returned"
    /\ write_pc' = "idle"
    /\ UNCHANGED << write_buf, total_written, write_ret, delivered, space,
                    write_error, SchedVars, BesideWrite >>

NextWrite ==
    \/ \E buf \in WriteBuffers : NetworkWrite(buf)
    \/ \E n \in 1..SendBuf : WriteSome(n)
    \/ WriteWouldBlock
    \/ WriteWake
    \/ WriteFails
    \/ \E n \in 1..SendBuf : PeerReads(n)
    \/ PeerResets
    \/ WriteReturned

\* a fiber writing to a connection
WriteSpec == Init /\ [][NextWrite]_vars

\* ------------------------------ network_read and network_read_until alone

\* the longest buffer a caller passes
MaxRead == 4

ReadSizes == 1..MaxRead

ReadFns == {"network_read", "network_read_until"}

\* the delimiter the caller of network_read_until passes
ReadDelim == CRLF

\* what the peer is going to send
ReadStreams ==
    { << "a", CR, LF, "b", "c" >>,
      << "a", "b", "c", "d", "e" >> }

\* what neither function touches
BesideRead == << arena_vars, http_vars, sent, parse_buf, parse_pc, parsed,
                 body_got, build, pending, served, route_vars, write_vars,
                 flow_vars, started >>

\* the pass of the function that was called
ReadPassOf(b) ==
    IF read_fn = "network_read" THEN network_read_pass(b, read_size)
    ELSE network_read_until_pass(b, read_size, ReadDelim)

\* a fiber calls fn(fd, buf, size) on a fresh connection
NetworkRead(fn, size, stream) ==
    /\ read_pc = "idle"
    /\ read_fn' = fn
    /\ read_size' = size
    /\ read_pc' = "read"
    /\ read_buf' = << >>
    /\ read_nul' = {}
    /\ read_error' = FALSE
    /\ wire' = stream
    /\ sock' = << >>
    /\ fin' = FALSE
    /\ UNCHANGED << read_ret, SchedVars, BesideRead >>

\* one pass of the loop that does not fail
ReadPass ==
    /\ read_pc = "read"
    /\ \E pass \in {ReadPassOf(read_buf)} :
          /\ pass.out # "error"
          /\ read_buf' = pass.buf
          /\ sock' = pass.sock
          /\ read_nul' = read_nul \cup pass.nul
          /\ read_pc' = CASE pass.out = "return" -> "returned"
                          [] pass.out = "EAGAIN" -> "runtime_read"
                          [] OTHER -> "read"
          /\ read_ret' = IF pass.out = "return" THEN pass.ret ELSE read_ret
    /\ UNCHANGED << read_fn, read_size, read_error, wire, fin, SchedVars,
                    BesideRead >>

\* read fails with ECONNRESET: runtime_logf, return -1
ReadFails ==
    /\ read_pc = "read"
    /\ ReadPassOf(read_buf).out = "error"
    /\ UserCode
    /\ Commit(runtime_logf(Sched), wait_cond, yield_window)
    /\ read_pc' = "returned"
    /\ read_ret' = -1
    /\ UNCHANGED << read_fn, read_size, read_buf, read_nul, read_error, wire,
                    sock, fin, ready_fds, plan, work, trace, BesideRead >>

\* runtime_read(fd) returns: poll has reported the descriptor
ReadWake ==
    /\ read_pc = "runtime_read"
    /\ sock # << >> \/ fin \/ read_error
    /\ read_pc' = "read"
    /\ UNCHANGED << read_fn, read_size, read_ret, read_buf, read_nul,
                    read_error, wire, sock, fin, SchedVars, BesideRead >>

\* the peer's next k bytes arrive
ReadPeerSends(k) ==
    /\ read_pc # "idle"
    /\ ~ fin /\ ~ read_error
    /\ k <= Len(wire)
    /\ sock' = sock \o SubSeq(wire, 1, k)
    /\ wire' = SubSeq(wire, k + 1, Len(wire))
    /\ UNCHANGED << read_vars, fin, SchedVars, BesideRead >>

\* the peer closes its side, whatever it has sent so far
ReadPeerCloses ==
    /\ read_pc # "idle"
    /\ ~ fin /\ ~ read_error
    /\ fin' = TRUE
    /\ UNCHANGED << read_vars, wire, sock, SchedVars, BesideRead >>

\* the peer resets the connection
ReadPeerResets ==
    /\ read_pc # "idle"
    /\ ~ read_error
    /\ read_error' = TRUE
    /\ UNCHANGED << read_fn, read_size, read_pc, read_ret, read_buf, read_nul,
                    wire, sock, fin, SchedVars, BesideRead >>

\* the caller is back and may call again
ReadReturned ==
    /\ read_pc = "returned"
    /\ read_pc' = "idle"
    /\ UNCHANGED << read_fn, read_size, read_ret, read_buf, read_nul,
                    read_error, wire, sock, fin, SchedVars, BesideRead >>

NextRead ==
    \/ \E fn \in ReadFns, size \in ReadSizes, stream \in ReadStreams :
          NetworkRead(fn, size, stream)
    \/ ReadPass
    \/ ReadFails
    \/ ReadWake
    \/ \E k \in 1..MaxRead : ReadPeerSends(k)
    \/ ReadPeerCloses
    \/ ReadPeerResets
    \/ ReadReturned

\* a fiber reading from a connection
ReadSpec == Init /\ [][NextRead]_vars

\* the delimiter is in the bytes stored so far
DelimSeen ==
    Len(read_buf) >= Len(ReadDelim) /\ strstr(read_buf, ReadDelim) # 0

\* C31: network_read_until stores at most size-1 bytes and writes its NUL
\* inside the buffer; when it returns, it returns -1 only after a permanent
\* read error and otherwise the number of bytes accumulated, with the NUL
\* right behind them; and the pass that finds the peer closed returns that
\* number, possibly 0, although the delimiter has not been seen
C31_ReadUntilReturnsAccumulated ==
    /\ [](read_fn = "network_read_until" =>
            /\ Len(read_buf) <= read_size - 1
            /\ \A i \in read_nul : 0 <= i /\ i <= read_size - 1
            /\ read_pc = "returned" =>
                  /\ read_ret = -1 => read_error
                  /\ read_ret # -1 =>
                        /\ read_ret = Len(read_buf)
                        /\ Len(read_buf) \in read_nul)
    /\ [][(/\ ReadPass
           /\ read_fn = "network_read_until"
           /\ fin /\ sock = << >> /\ ~ read_error)
          => (read_pc' = "returned" /\ read_ret' = Len(read_buf))]_vars

\* the peer closed before the delimiter was seen and before the buffer was
\* full, and network_read_until has returned
C31_Witness ==
    /\ read_fn = "network_read_until"
    /\ read_pc = "returned"
    /\ fin /\ ~ read_error
    /\ ~ DelimSeen
    /\ Len(read_buf) < read_size - 1
    /\ read_ret = Len(read_buf)
    /\ read_ret > 0

\* C40: network_read(fd, buf, n) stores at most n bytes and writes its NUL
\* at an index below n
C40_ReadWritesInsideBuffer ==
    read_fn = "network_read" =>
        /\ Len(read_buf) <= read_size
        /\ \A i \in read_nul : 0 <= i /\ i < read_size

\* a handler answering one request
HttpSpec == Init /\ [][NextHttp]_vars

\* the parser and the handler of one connection
ParseSpec == Init /\ [][NextParse]_vars

\* the program of test-memory.c
ArenaSpec == Init /\ [][NextArena]_vars

\* ------------------------------------------- tests/app/test-runtime.c
\* The host spawns one counter fiber per entry of plan and then calls
\* runtime_main; a counter prints and yields plan[id] times and returns.
SizeofLong == PageSize - 1   \* the counter's long fits a fresh page

Plans == UNION {[1..n -> 0..MaxSteps] : n \in 0..MaxSpawn}

InitCounter ==
    /\ runtime_fibers = << [memory |-> NULL] >>
    /\ runtime_running_fibers = << 0 >>
    /\ runtime_waiting_fibers = << >>
    /\ runtime_stopped_fibers = << >>
    /\ runtime_polls = << >>
    /\ runtime_current_fiber = 0
    /\ pc = "run"
    /\ host_pc = "user"
    /\ ready_fds = {}
    /\ poll_call = NoPoll
    /\ wait_cond = << >>
    /\ yield_window = << >>
    /\ plan \in Plans
    /\ work = << >>
    /\ trace = << >>
    /\ InitArena
    /\ InitRequest
    /\ InitIo
    /\ InitRoute
    /\ InitWrite
    /\ InitRead
    /\ InitFlow

\* main: runtime_start(counter, n)
CounterSpawn ==
    /\ pc = "run" /\ Executing = 0 /\ host_pc = "user"
    /\ Len(work) < Len(plan)
    /\ Commit(runtime_start(Sched), wait_cond, << >>)
    /\ work' = Append(work, plan[Len(work) + 1])
    /\ UNCHANGED << ready_fds, plan, trace, lib_vars >>

\* main: runtime_main(), one pass of its loop
CounterMain ==
    /\ pc = "run" /\ Executing = 0
    /\ Len(work) = Len(plan)
    /\ LET t == runtime_main(Sched)
       IN  Commit(t, wait_cond, WindowAfterYield(Sched, t))
    /\ UNCHANGED << ready_fds, plan, work, trace, lib_vars >>

\* counter: (on entry, runtime_alloc of the count;) print, runtime_yield
CounterStep ==
    /\ pc = "run" /\ Executing # 0
    /\ work[Executing] > 0
    /\ LET id == Executing
           s  == IF work[id] = plan[id]
                 THEN runtime_alloc(Sched, SizeofLong) ELSE Sched
           t  == _runtime_yield(s)
       IN  /\ Commit(t, wait_cond, WindowAfterYield(s, t))
           /\ trace' = Append(trace, << id, plan[id] - work[id] >>)
           /\ work' = [work EXCEPT ![id] = @ - 1]
    /\ UNCHANGED << ready_fds, plan, lib_vars >>

\* counter returns into runtime_stop
CounterReturn ==
    /\ pc = "run" /\ Executing # 0
    /\ work[Executing] = 0
    /\ Commit(runtime_stop(Sched), wait_cond, << >>)
    /\ UNCHANGED << ready_fds, plan, work, trace, lib_vars >>

NextCounter ==
    \/ CounterSpawn
    \/ CounterMain
    \/ CounterStep
    \/ CounterReturn

\* the single thread keeps executing
CounterSpec == InitCounter /\ [][NextCounter]_vars /\ WF_vars(NextCounter)

TypeOK ==
    /\ pc \in {"run", "poll_next", "poll_stop", "done", "exit_stop",
               "fault_empty", "fault_next", "fault_stop"}
    /\ Len(runtime_fibers) <= MaxFibers

\* ------------------------------------------------------------------ claims
IsWaiting(id) == id \in Range(runtime_waiting_fibers)
IsRunning(id) == id \in Range(runtime_running_fibers)
IsStopped(id) == id \in Range(runtime_stopped_fibers)
NoDup(seq) == \A i, j \in 1..Len(seq) : seq[i] = seq[j] => i = j

\* C1: polls and waiting have the same length, and polls[i] holds the fd and
\* direction that fiber waiting[i] registered in its last runtime_read or
\* runtime_write.
C1_PollsParallelWaiting ==
    /\ Len(runtime_polls) = Len(runtime_waiting_fibers)
    /\ \A i \in 1..Len(runtime_polls) :
          [fd |-> runtime_polls[i].fd, events |-> runtime_polls[i].events]
              = wait_cond[runtime_waiting_fibers[i]]

\* two fibers wait in both directions, in an order only a swap-remove gives
C1_Witness ==
    /\ Len(runtime_waiting_fibers) = 2
    /\ runtime_waiting_fibers[1] > runtime_waiting_fibers[2]
    /\ runtime_polls[1].events # runtime_polls[2].events

\* C2: ready, waiting and free are duplicate-free and pairwise disjoint, and
\* with the host id they hold exactly the ids of the fiber table.
C2_BucketsPartitionIds ==
    /\ NoDup(runtime_running_fibers)
    /\ NoDup(runtime_waiting_fibers)
    /\ NoDup(runtime_stopped_fibers)
    /\ Range(runtime_running_fibers) \cap Range(runtime_waiting_fibers) = {}
    /\ Range(runtime_running_fibers) \cap Range(runtime_stopped_fibers) = {}
    /\ Range(runtime_waiting_fibers) \cap Range(runtime_stopped_fibers) = {}
    /\ Range(runtime_running_fibers) \cup Range(runtime_waiting_fibers)
          \cup Range(runtime_stopped_fibers) \cup {0}
            = 0 .. (Len(runtime_fibers) - 1)

\* a fiber was spawned on a reused id while others wait and are free
C2_Witness ==
    /\ Len(runtime_fibers) = MaxFibers
    /\ Len(runtime_stopped_fibers) >= 1
    /\ Len(runtime_waiting_fibers) >= 1
    /\ Len(runtime_running_fibers) >= 1

\* C3: with N fibers ready, none waiting and none spawned or exiting, N
\* consecutive runtime_yield calls resume each of the N fibers exactly once.
C3_RoundRobinWindow ==
    (Len(runtime_waiting_fibers) = 0
       /\ Len(yield_window) = Len(runtime_running_fibers))
    => /\ Range(yield_window) = Range(runtime_running_fibers)
       /\ NoDup(yield_window)

\* three fibers went through a full round of yields
C3_Witness ==
    /\ Len(runtime_running_fibers) = 3
    /\ Len(yield_window) = 3
    /\ Len(runtime_waiting_fibers) = 0

FiberIds == 0 .. (MaxFibers - 1)

WaitReady(id) ==
    /\ IsWaiting(id)
    /\ << wait_cond[id].fd, wait_cond[id].events >> \in ready_fds

Resumed(id) == pc = "run" /\ Executing = id

\* C4: while the process lives, a waiting fiber whose fd is ready is
\* eventually moved to ready, and a fiber in ready is eventually resumed.
C4_WakeupAndNoStarvation ==
    \A id \in FiberIds :
        /\ (Alive /\ WaitReady(id)) ~> (~ Alive \/ ~ WaitReady(id))
        /\ (Alive /\ IsRunning(id)) ~> (~ Alive \/ Resumed(id))

\* C5: every poll of the driver uses timeout 0 when at least one fiber is in
\* ready and the blocking timeout -1 only when ready is empty, so no ready
\* fiber sits behind a blocked poll.
C5_BlockingPollOnlyWhenNoneReady ==
    /\ poll_call.polled =>
          (poll_call.timeout = -1 <=> poll_call.ready = 0)
    /\ pc \in {"poll_next", "poll_stop"} => Len(runtime_running_fibers) = 0

\* C6: runtime_main returns only when the host is the only ready fiber and
\* no fiber is waiting.
C6_MainReturnsWhenIdle ==
    pc = "done" =>
        /\ runtime_running_fibers = << 0 >>
        /\ Len(runtime_waiting_fibers) = 0

\* runtime_main returned after fibers were spawned, had waited and stopped
C6_Witness ==
    /\ pc = "done"
    /\ Len(runtime_stopped_fibers) = MaxFibers - 1
    /\ ready_fds # {}

Queues == << runtime_running_fibers, runtime_waiting_fibers,
             runtime_stopped_fibers, runtime_polls, runtime_current_fiber >>

\* C9: host id 0 is never in the stopped list, and the host entering
\* runtime_stop ends the process without changing any queue.
C9_HostNeverStopped ==
    [][ /\ ~ IsStopped(0)'
        /\ (Stop /\ Executing = 0)
              => (pc' = "exit_stop" /\ UNCHANGED Queues) ]_vars

\* the host went through runtime_stop while other fibers were alive
C9_Witness ==
    /\ pc = "exit_stop"
    /\ Len(runtime_running_fibers) > 1
    /\ Len(runtime_waiting_fibers) > 0

\* C10: runtime_stop of a non-host fiber completes and leaves the id in
\* free, in neither ready nor waiting, with its arena reset to no blocks and
\* count 0.
C10_StopFreesFiberAndArena ==
    /\ pc # "fault_empty"
    /\ \A id \in Range(runtime_stopped_fibers) :
          /\ ~ IsRunning(id)
          /\ ~ IsWaiting(id)
          /\ Len(runtime_fibers[id + 1].memory) = 1
          /\ runtime_fibers[id + 1].memory[1].count = 0
          /\ runtime_fibers[id + 1].memory[1].blocks = << >>

\* C7: when every spawned fiber yields finitely often and returns and no
\* fiber waits on I/O, runtime_main called by the host eventually returns 0.
C7_MainEventuallyReturns == <>(pc = "done")

\* runtime_main returned after every planned fiber ran all its steps
C7_Witness ==
    /\ pc = "done"
    /\ Len(plan) = MaxSpawn
    /\ \A i \in 1..Len(plan) : plan[i] = MaxSteps
    /\ Len(trace) = MaxSpawn * MaxSteps
    /\ Len(runtime_stopped_fibers) = MaxSpawn

RECURSIVE Alternation(_, _, _)
\* A0,B0,...,A(m-1),B(m-1),Bm,...,B(n-1) from step i on, A = 1 and B = 2
Alternation(m, n, i) ==
    IF i >= n THEN << >>
    ELSE (IF i < m THEN << <<1, i>>, <<2, i>> >> ELSE << <<2, i>> >>)
            \o Alternation(m, n, i + 1)

IsPrefix(a, b) == Len(a) <= Len(b) /\ a = SubSeq(b, 1, Len(a))

\* C8: for fibers A with m steps and B with n >= m steps the printed trace
\* is A0,B0,A1,B1,... for m rounds and then B's remaining steps in order.
C8_CounterInterleaving ==
    (Len(plan) = 2 /\ plan[1] <= plan[2]) =>
        /\ IsPrefix(trace, Alternation(plan[1], plan[2], 0))
        /\ pc = "done" => trace = Alternation(plan[1], plan[2], 0)

\* A with fewer steps than B, both finished
C8_Witness ==
    /\ Len(plan) = 2 /\ plan[1] = 2 /\ plan[2] = MaxSteps
    /\ pc = "done"
    /\ Len(trace) = 2 + MaxSteps

\* ------------------------------------------------- claims on the arena
HeadReset ==
    << [capacity |-> test_arena[1].capacity, count |-> 0, blocks |-> << >>] >>

\* C11: memory_empty on an arena with any number of chained pages returns
\* and leaves only the head page, with count 0, an empty block list and its
\* capacity unchanged, every later page destroyed exactly once.
C11_EmptyLeavesHeadOnly ==
    [][ ArenaEmpty =>
           /\ arena_pc' = "run"
           /\ test_arena' = HeadReset
           /\ page_ids' = << page_ids[1] >> ]_vars

AnyArenaAlloc == \E size \in ArenaSizes : ArenaAlloc(size)

\* C12: after a sequence of memory_alloc calls and a memory_empty, the next
\* memory_alloc returns the pointer that the first allocation of the
\* sequence returned.
C12_ResetReturnsFirstPointer ==
    [][ /\ (ArenaEmpty /\ handed # << >>) => arena_pc' = "run"
        /\ (AnyArenaAlloc /\ handed = << >> /\ first_ptr.prev # NoPtr)
              => [page |-> arena_ret'.page, ptr |-> arena_ret'.ptr]
                    = first_ptr.prev ]_vars

Overlap(a, b) ==
    /\ a.page = b.page
    /\ a.ptr < b.ptr + b.size
    /\ b.ptr < a.ptr + a.size

\* C13: every page has 0 <= count <= capacity, every recorded block lies
\* inside the used part of its page, and no two blocks handed out since the
\* last reset overlap.
C13_PagesAndBlocksWellFormed ==
    arena_pc = "run" =>
        /\ \A i \in 1..Len(test_arena) :
              /\ 0 <= test_arena[i].count
              /\ test_arena[i].count <= test_arena[i].capacity
              /\ \A j \in 1..Len(test_arena[i].blocks) :
                    /\ 0 <= test_arena[i].blocks[j].ptr
                    /\ test_arena[i].blocks[j].size > 0
                    /\ test_arena[i].blocks[j].ptr
                          + test_arena[i].blocks[j].size
                             <= test_arena[i].count
        /\ \A k \in 1..Len(handed) :
              LET at == ChainIndex(page_ids, handed[k].page)
              IN  at > 0 =>
                     \E j \in 1..Len(test_arena[at].blocks) :
                        /\ test_arena[at].blocks[j].ptr = handed[k].ptr
                        /\ test_arena[at].blocks[j].size = handed[k].size
        /\ \A k, l \in 1..Len(handed) :
              k # l => ~ Overlap(handed[k], handed[l])

\* two blocks share the head page, a later page took a large block and a
\* page was mapped on top of another one's link
C13_Witness ==
    /\ arena_pc = "run"
    /\ Len(test_arena) = 2
    /\ Len(test_arena[1].blocks) = 2
    /\ pages_made = 3
    /\ Len(handed) = 4

\* C14: the number of block descriptors the arena holds equals the number
\* of allocations since the last reset, a growing memory_realloc counting
\* as one and a memory_realloc that returns the old pointer as none.
C14_BlockCountIsAllocations ==
    arena_pc = "run" => ArenaBlocks(test_arena) = Len(handed)

\* the bytes of a block
Bytes(c, b) == [i \in 0..(b.size - 1) |-> CellAt(c, b.page, b.ptr + i)]

\* C15: memory_realloc to a larger size returns a fresh region that starts
\* with the old block's bytes and leaves the old block as it was; a later
\* write through one pointer changes no other block.
C15_ReallocCopiesAndKeepsOld ==
    [][ /\ \A k \in 1..Len(handed), size \in ArenaSizes :
              (ArenaRealloc(k, size) /\ size > handed[k].size) =>
                 LET old == handed[k]
                     new == [page |-> arena_ret'.page, ptr |-> arena_ret'.ptr,
                             size |-> size]
                 IN  /\ arena_ret'.page # 0
                     /\ \A l \in 1..Len(handed) : ~ Overlap(new, handed[l])
                     /\ \A i \in 0..(old.size - 1) :
                           CellAt(cells', new.page, new.ptr + i)
                              = CellAt(cells, old.page, old.ptr + i)
                     /\ Bytes(cells', old) = Bytes(cells, old)
        /\ \A k \in 1..Len(handed), value \in Values :
              ArenaWrite(k, value) =>
                 \A l \in 1..Len(handed) :
                    l # k => Bytes(cells', handed[l]) = Bytes(cells, handed[l])
      ]_vars

\* a block larger than one arena page was allocated from the arena
HasLargeBlock(memory) ==
    /\ memory # NULL
    /\ \E i \in 1..Len(memory) : \E j \in 1..Len(memory[i].blocks) :
          memory[i].blocks[j].size > PageSize

\* C16: when a fiber that allocated a block larger than one page exits, its
\* id is free for the next runtime_start, which reuses the id and the arena,
\* and the first allocation of that second fiber returns a pointer into a
\* region the first fiber had been given.
C16_SecondFiberReusesArena ==
    [][ (Stop /\ Executing # 0 /\ HasLargeBlock(runtime_memory(Sched))) =>
           LET id     == Executing
               before == runtime_fibers[id + 1].memory
               after  == runtime_fibers'[id + 1].memory
               second == runtime_start(Sched')
               first  == memory_alloc(after, 1)
           IN  /\ IsStopped(id)'
               /\ second.running[Len(second.running)] = id
               /\ Len(second.fibers) = Len(runtime_fibers)
               /\ first.page = 1
               /\ \E i \in 1..Len(before) :
                     \E j \in 1..Len(before[i].blocks) :
                        /\ before[i].blocks[j].ptr <= first.ptr
                        /\ first.ptr < before[i].blocks[j].ptr
                                          + before[i].blocks[j].size
      ]_vars

\* ---------------------------------------------- claims on the response
\* the response head of a request: status line, header lines, blank line
HeadLines(r, status) ==
    << StatusLine(status, Message(status)) >>
       \o [i \in 1..Len(r.res_headers) |-> HeaderLine(r.res_headers[i])]
       \o << BlankLine >>

\* what the peer received, the part of a failed write left out
Delivered(c) == SelectSeq(c.out, LAMBDA buf : buf.kind # "cut")

\* C18: the first network_write_head on a request sets res_status and emits
\* the status line, every response header and the blank line (all of them
\* unless a write fails); every later network_write_head returns -1, writes
\* nothing and leaves res_status as it is.
C18_HeadWrittenOnce ==
    [][ \A status \in Statuses, left \in Lefts, cut \in BOOLEAN :
           WriteHead(status, left, cut) =>
              IF req.res_status # 0
              THEN /\ http_ret'.n = -1
                   /\ conn' = conn
                   /\ req' = req
              ELSE /\ req'.res_status = status
                   /\ IsPrefix(conn.out, conn'.out)
                   /\ IsPrefix(Delivered(conn'), HeadLines(req, status))
                   /\ ~ conn'.broken =>
                         conn'.out = HeadLines(req, status)
      ]_vars

\* a second network_write_head was refused on a healthy connection that had
\* got a head with a header
C18_Witness ==
    /\ http_ret = [op |-> "network_write_head", n |-> -1]
    /\ ~ conn.broken /\ conn.open
    /\ Len(conn.out) = 3
    /\ Len(req.res_headers) = 1

ContentLengths(r) ==
    {i \in 1..Len(r.res_headers) :
        strcasecmp(r.res_headers[i].key, "Content-Length") = 0}

Others(r) ==
    SelectSeq(r.res_headers,
              LAMBDA h : strcasecmp(h.key, "Content-Length") # 0)

\* C19: network_write_body before any network_write_head puts on the
\* connection the status line of 200 OK, the response headers with exactly
\* one Content-Length whose value is the decimal body length (an earlier
\* one replaced), the blank line and then the body, in this order; a write
\* that fails cuts the sequence short.
C19_BodyFirstSendsDefaultHead ==
    [][ \A len \in BodyLens, left \in Lefts, cut \in BOOLEAN :
           (WriteBody(len, left, cut) /\ req.res_status = 0) =>
              LET whole == HeadLines(req', 200) \o << BodyBytes(len) >>
              IN  /\ Cardinality(ContentLengths(req')) = 1
                  /\ \A i \in ContentLengths(req') :
                        req'.res_headers[i].value = Decimal(len)
                  /\ Others(req') = Others(req)
                  /\ req'.res_status = 200
                  /\ IsPrefix(Delivered(conn'), whole)
                  /\ ~ conn'.broken => conn'.out = whole
      ]_vars

\* a body of 12 bytes went out whole behind a default head in which the
\* length replaced one set earlier under another spelling
C19_Witness ==
    /\ http_ret.op = "network_write_body"
    /\ ~ conn.broken
    /\ Len(conn.out) = 5
    /\ conn.out[5] = BodyBytes(12)
    /\ \E i \in 1..Len(req.res_headers) :
          /\ req.res_headers[i].key = "CONTENT-LENGTH"
          /\ req.res_headers[i].value = << "1", "2" >>

\* C20: on every path out of network_write_body the connection fd has been
\* closed exactly once and req->conn_fd is -1.
C20_BodyAlwaysCloses ==
    [][ \A len \in BodyLens, left \in Lefts, cut \in BOOLEAN :
           WriteBody(len, left, cut) =>
              /\ ~ conn'.open
              /\ conn'.closes = 1
              /\ req'.conn_fd = -1
      ]_vars

\* ---------------------------------------------- claims on the listener
\* bytes in use in an arena
ArenaUsed(memory) ==
    LET RECURSIVE Sum(_)
        Sum(i) == IF i = 0 THEN 0 ELSE memory[i].count + Sum(i - 1)
    IN  Sum(Len(memory))

\* C17: what network_parse_http builds for a request is allocated from the
\* arena of the handler fiber of that request, and the listener's arena
\* holds nothing more after any number of requests than before the first.
C17_RequestInHandlerArena ==
    /\ \A i \in 1..Len(requests) : requests[i].owner = requests[i].handler
    /\ listener # -1 => ArenaUsed(runtime_fibers[listener + 1].memory) = 0

\* ---------------------------------------------- claims on the headers
\* the entries of a response header list under a key, compared as
\* network_set_header compares
EntriesOf(r, header) ==
    {i \in 1..Len(r.res_headers) :
        strcasecmp(r.res_headers[i].key, header) = 0}

\* the entries under every other key
EntriesBeside(r, header) ==
    SelectSeq(r.res_headers, LAMBDA h : strcasecmp(h.key, header) # 0)

\* C21: after any sequence of network_set_header calls the response header
\* list holds at most one entry per key compared case-insensitively, and
\* that entry carries the value of the most recent call for the key: each
\* call leaves exactly one entry under its key, with its value, and the
\* entries under other keys as they were.
C21_SetHeaderUpserts ==
    /\ [](\A key \in HeaderKeys : Cardinality(EntriesOf(req, key)) <= 1)
    /\ [][ \A key \in HeaderKeys, value \in HeaderValues :
              SetHeader(key, value) =>
                 /\ Cardinality(EntriesOf(req', key)) = 1
                 /\ \A i \in EntriesOf(req', key) :
                       req'.res_headers[i].value = value
                 /\ EntriesBeside(req', key) = EntriesBeside(req, key)
         ]_vars

\* a key set twice under two spellings and with two values holds the
\* second value in its single entry, next to an entry under another key
C21_Witness ==
    /\ http_ret.op = "network_set_header"
    /\ Len(req.res_headers) = 2
    /\ \E i \in 1..Len(req.res_headers) :
          /\ req.res_headers[i].key = "CONTENT-LENGTH"
          /\ req.res_headers[i].value = << "t", "x", "t" >>
    /\ http_calls = MaxCalls

\* ---------------------------------------------- claims on the parser
\* the server has a request: the handler was started
HandlerStarted == parse_pc \in {"handler", "handler_read", "served"}

\* the prologue within b: b up to the first CRLF CRLF and with it
PrologueOf(b) ==
    LET i == strstr(b, EndOfPrologue)
    IN  IF i = 0 THEN b ELSE SubSeq(b, 1, i + Len(EndOfPrologue) - 1)

\* the bytes behind the prologue: the body
BodyOf(b) ==
    LET i == strstr(b, EndOfPrologue)
    IN  IF i = 0 THEN << >> ELSE SubSeq(b, i + Len(EndOfPrologue), Len(b))

\* C22: the parser takes header lines only up to the blank line that ends
\* the prologue; bytes that arrive after CRLF CRLF never become request
\* headers and never change the stored content length: the request is the
\* one the prologue alone gives.
C22_BodyNeverParsed ==
    HandlerStarted =>
       /\ parsed.req_headers = parse_request(PrologueOf(parse_buf)).req_headers
       /\ parsed.content_length =
             parse_request(PrologueOf(parse_buf)).content_length

\* the content length a request declares in its prologue
DeclaredLength(request) == parse_request(PrologueOf(request)).content_length

\* C23: a request with a Content-Length header in any letter case is parsed
\* with the content length equal to the header's decimal value, and the
\* handler can then read exactly that many body bytes, however the client's
\* sends interleave with the server's reads: what the handler has read and
\* can still read is the body, and a handler that is done has all of it.
C23_LengthParsedBodyReadable ==
    (HandlerStarted /\ sent \in {LengthRequest, HeaderBodyRequest}) =>
       /\ parsed.content_length = DeclaredLength(sent)
       /\ body_got \o sock \o wire = BodyOf(sent)
       /\ parse_pc = "served" => body_got = BodyOf(sent)

\* network_parse_http has returned
ParseReturned == parse_pc \in {"rejected", "handler", "handler_read", "served"}

\* C24: a prologue that does not fit the buffer (the buffer is full and
\* holds no CRLF CRLF) is rejected: the parser returns no request and no
\* handler is started.
C24_OversizedPrologueRejected ==
    (/\ ParseReturned
     /\ Len(parse_buf) = ReadSize - 1
     /\ strstr(parse_buf, EndOfPrologue) = 0) =>
       /\ parsed.ret = "NULL"
       /\ parse_pc = "rejected"

\* ---------------------------------------------- claims on the listener
\* the fiber of network_listen is alive
ListenerAlive ==
    \E i \in 1..Len(runtime_running_fibers) \cup 1..Len(runtime_waiting_fibers) :
       \/ i <= Len(runtime_running_fibers) /\ runtime_running_fibers[i] = listener
       \/ i <= Len(runtime_waiting_fibers) /\ runtime_waiting_fibers[i] = listener

\* C25: when parsing the prologue of an accepted connection fails, the
\* listen loop starts no handler fiber, closes the accepted descriptor and
\* goes on at the top of its loop, in source/app and in source/lite.
C25_ParseFailureClosesAndContinues ==
    [][ ParseFails =>
           /\ served'[Len(served')].fd = "closed"
           /\ served'[Len(served')].handlers = 0
           /\ requests' = requests
           /\ runtime_running_fibers' = runtime_running_fibers
           /\ parse_pc' = LoopTop(build)
           /\ ListenerAlive'
      ]_vars

\* C26: an accept failure other than would-block does not end the
\* listener: after it the fiber of network_listen is alive and at the top of
\* its loop, where later connections are accepted.
C26_AcceptFailureKeepsListening ==
    [][ AcceptFails => (ListenerAlive' /\ parse_pc' = LoopTop(build)) ]_vars

\* the listener of source/app has found no byte of the prologue on the
\* connection and has handed control to the scheduler
Delayed ==
    /\ build = "app"
    /\ parse_pc = "network_read_until"
    /\ sock = << >> /\ ~ fin
    /\ ~ (pc = "run" /\ Executing = listener)

\* some handler fiber is ready
HandlerReady ==
    \E i \in 1..Len(runtime_running_fibers) :
       runtime_running_fibers[i] \notin {0, listener}

\* the listener's pass over the connection it is parsing ends with this step
ParseEnds == parse_pc = "network_read_until" /\ parse_pc' # parse_pc

ExactMatches(method, path) ==
    {i \in 1..Len(router.endpoints) :
        /\ strcasecmp_bytes(router.endpoints[i].method, method) = 0
        /\ router.endpoints[i].path = path}

\* C28: dispatch returns the first endpoint in registration order whose
\* method equals the request's ignoring case and whose path is byte for byte
\* the request's; an endpoint whose path differs from the request's in
\* letter case is not returned.
C28_FirstExactMatchWins ==
    [][\A method \in Methods, path \in Paths :
          Route(method, path) =>
             /\ ExactMatches(method, path) # {} =>
                   routed'.endpoint =
                      router.endpoints[Minimum(ExactMatches(method, path))]
             /\ routed'.endpoint # network_not_found_endpoint =>
                   routed'.endpoint.path = path]_vars

\* the four buffers of the answer of network_not_found
NotFoundResponse ==
    << StatusLine(404, "Not Found"),
       HeaderLine([key |-> "Content-Type", value |-> TextPlain]),
       BlankLine,
       BodyBytes(Len(NotFoundBody)) >>

\* C29: a request that matches no registered endpoint (no endpoint has its
\* method up to case and exactly its path) is dispatched to the built-in
\* 404 endpoint, the lookup never yielding no endpoint; and that endpoint,
\* with a peer that takes what is written, sends the status line HTTP/1.0
\* 404 Not Found, the header Content-Type: text/plain, the blank line and the
\* nine bytes of the body, once, and closes the connection.
C29_UnmatchedGetsNotFound ==
    /\ [][\A method \in Methods, path \in Paths :
             (Route(method, path) /\ ExactMatches(method, path) = {}) =>
                routed'.endpoint = network_not_found_endpoint]_vars
    /\ [][\A left \in Lefts, cut \in BOOLEAN :
             (NotFound(left, cut) /\ left >= Len(NotFoundResponse)) =>
                /\ conn'.out = NotFoundResponse
                /\ ~ conn'.open /\ conn'.closes = 1
                /\ req'.res_status = 404]_vars

\* C30: network_write returns size only when exactly the bytes of buf, each
\* once and in order, have gone to the descriptor, whatever the partial
\* writes and the waits in between; at every moment of the call what has
\* gone out is the first total_written bytes of buf; and it returns -1 only
\* when the write failed for good.
C30_WriteDeliversAll ==
    /\ write_pc # "idle" =>
          /\ total_written <= Len(write_buf)
          /\ delivered = SubSeq(write_buf, 1, total_written)
    /\ write_pc = "returned" =>
          \/ write_ret = Len(write_buf) /\ delivered = write_buf
          \/ write_ret = -1 /\ write_error

\* a buffer longer than the send buffer, with a repeated byte, has gone out
\* whole and the send buffer is full again
C30_Witness ==
    /\ write_pc = "returned"
    /\ write_buf = << "a", "a", "b", "a" >>
    /\ write_ret = 4
    /\ delivered = write_buf
    /\ space = 0

\* ------------------------------------------------- the order of dispatch

\* seq read round from its index k (counted from 0)
Rotate(seq, k) ==
    [i \in 1..Len(seq) |-> seq[((k + i - 1) % Len(seq)) + 1]]

\* the ready fibers in the order round-robin dispatch takes them, the
\* executing one first
DispatchOrder ==
    IF Len(runtime_running_fibers) = 0 THEN << >>
    ELSE Rotate(runtime_running_fibers,
                runtime_current_fiber % Len(runtime_running_fibers))

\* the ready fibers behind the executing one, in the order of their turns
TurnsAfter == Tail(DispatchOrder)

\* the part of seq made of the members of set
Among(seq, set) ==
    LET Member(x) == x \in set IN SelectSeq(seq, Member)

\* the executing fiber leaves the ready list: it exits or waits for a
\* descriptor
LeavesReady == Stop \/ \E fd \in Fds : Read(fd) \/ Write(fd)

\* C32: a spawned fiber enters the ready list at its tail, and when the
\* executing fiber exits or suspends on I/O the fibers that stay ready are
\* dispatched in the order their turns had before
C32_FifoRoundRobin ==
    /\ [][Start => \E id \in 0..MaxFibers :
                      runtime_running_fibers'
                          = Append(runtime_running_fibers, id)]_vars
    /\ [][(LeavesReady /\ pc' = "run")
          => Among(DispatchOrder', Range(TurnsAfter)) = TurnsAfter]_vars

\* C33: runtime_start takes the id stopped last whenever the stopped list is
\* not empty, leaving the fiber table as it is, and only otherwise grows the
\* table by one record whose index is the new id; the id goes to the tail of
\* the ready list, and the caller keeps executing
C33_StartReusesLastStopped ==
    [][Start =>
         LET n == Len(runtime_stopped_fibers)
             fiber_id == IF n > 0 THEN runtime_stopped_fibers[n]
                         ELSE Len(runtime_fibers)
         IN  /\ IF n > 0
                THEN /\ runtime_stopped_fibers'
                           = SubSeq(runtime_stopped_fibers, 1, n - 1)
                     /\ runtime_fibers' = runtime_fibers
                ELSE /\ runtime_stopped_fibers' = runtime_stopped_fibers
                     /\ Len(runtime_fibers') = Len(runtime_fibers) + 1
                     /\ SubSeq(runtime_fibers', 1, Len(runtime_fibers))
                           = runtime_fibers
             /\ runtime_running_fibers'
                   = Append(runtime_running_fibers, fiber_id)
             /\ runtime_waiting_fibers' = runtime_waiting_fibers
             /\ runtime_current_fiber' = runtime_current_fiber
             /\ Executing' = Executing
             /\ Executing' # fiber_id
             /\ pc' = pc]_vars

\* runtime_start found two stopped ids and has taken one of them
C33_Witness ==
    /\ started = 2
    /\ Len(runtime_stopped_fibers) = 1
    /\ Len(runtime_running_fibers) = 2
    /\ runtime_running_fibers[2] # runtime_stopped_fibers[1]

\* --------------------------------------------------------- wakeups

\* the poll record that belongs to the waiting fiber id
PollOf(id) ==
    runtime_polls[CHOOSE i \in 1..Len(runtime_waiting_fibers) :
                      runtime_waiting_fibers[i] = id]

\* the kernel reports the descriptor of the record for the events asked for
Reported(poll) == << poll.fd, poll.events >> \in ready_fds

\* the step runs the poll and the wake loop of runtime_next or runtime_stop
DriverPass ==
    \/ Yield \/ Main \/ Stop
    \/ \E fd \in Fds : Read(fd) \/ Write(fd)
    \/ PollReturnNext \/ PollReturnStop

\* C38: a fiber leaves the waiting list only for the ready list, only in a
\* step that runs the poll of a driver and only when poll reports readiness
\* for the fiber's own record; and a fiber that calls runtime_read or
\* runtime_write on a descriptor that is not reported is not ready after the
\* call.  So runtime_stop never promotes waiting[0] without a report.
C38_NoSpuriousWakeup ==
    /\ [][\A id \in Range(runtime_waiting_fibers) :
            id \notin Range(runtime_waiting_fibers')
            => /\ id \in Range(runtime_running_fibers')
               /\ DriverPass
               /\ Reported(PollOf(id))
               /\ PollOf(id) = [fd      |-> wait_cond[id].fd,
                                events  |-> wait_cond[id].events,
                                revents |-> PollOf(id).revents]]_vars
    /\ [](UserCode =>
            \A fd \in Fds :
               /\ << fd, POLLRDNORM >> \notin ready_fds
                  => \A t \in {_runtime_read(Sched, fd)} :
                        Executing \notin Range(t.running)
               /\ << fd, POLLWRNORM >> \notin ready_fds
                  => \A t \in {_runtime_write(Sched, fd)} :
                        Executing \notin Range(t.running))

\* the last poll was called with timeout -1 and has returned, which it does
\* only with a report: a fiber was woken, while another one, whose descriptor
\* is not reported, is still waiting
C38_Witness ==
    /\ pc = "run"
    /\ poll_call.polled /\ poll_call.timeout = -1
    /\ Len(runtime_waiting_fibers) >= 1
    /\ \A i \in 1..Len(runtime_polls) : ~ Reported(runtime_polls[i])

\* ------------------------------------------- the page chain of memory_alloc

\* page i of the arena has at least size free bytes
HasRoom(i, size) == test_arena[i].count + size <= test_arena[i].capacity

\* the pages of the chain that have room for size bytes
PagesWithRoom(size) == {i \in 1..Len(test_arena) : HasRoom(i, size)}

\* the position in the chain of the page the last call returned a pointer
\* into, after the step
ReturnedPage == ChainIndex(page_ids', arena_ret'.page)

\* C35: memory_alloc places the block in the first page of the chain that has
\* at least size free bytes, an exact fit included, and appends a new page
\* only when no page of the chain has room
C35_FirstFit ==
    [][\A size \in ArenaSizes :
         ArenaAlloc(size) =>
            IF PagesWithRoom(size) # {}
            THEN /\ Len(test_arena') = Len(test_arena)
                 /\ pages_made' = pages_made
                 /\ ReturnedPage = CHOOSE i \in PagesWithRoom(size) :
                                      \A j \in PagesWithRoom(size) : i <= j
            ELSE /\ Len(test_arena') = Len(test_arena) + 1
                 /\ pages_made' = pages_made + 1
                 /\ ReturnedPage = Len(test_arena')]_vars

\* C36: when no page has room for size bytes, the page memory_alloc appends
\* has capacity 2 * max(capacity of the head page, size), whatever the
\* length of the chain
C36_NewPageCapacity ==
    [][\A size \in ArenaSizes :
         (ArenaAlloc(size) /\ PagesWithRoom(size) = {})
         => /\ pages_made' = pages_made + 1
            /\ test_arena'[Len(test_arena')].capacity
                  = 2 * (IF test_arena[1].capacity > size
                         THEN test_arena[1].capacity ELSE size)]_vars

\* C37: memory_realloc of a pointer memory_alloc has returned since the last
\* reset, to a size above the block's, returns a fresh allocation and not
\* NULL, in whichever page the block is
C37_ReallocAnyPage ==
    [][\A k \in 1..Len(handed), size \in ArenaSizes :
         (ArenaRealloc(k, size) /\ size > handed[k].size)
         => /\ arena_ret'.page # 0
            /\ << arena_ret'.page, arena_ret'.ptr >>
                  # << handed[k].page, handed[k].ptr >>
            /\ Len(handed') = Len(handed) + 1]_vars

\* C39: a call of memory_alloc or memory_realloc leaves every page of the
\* chain in the chain
C39_PagesStayLinked ==
    [][(\E size \in ArenaSizes :
           \/ ArenaAlloc(size)
           \/ \E k \in 1..Len(handed) : ArenaRealloc(k, size))
       => \A i \in 1..Len(page_ids) :
             /\ i <= Len(page_ids')
             /\ page_ids'[i] = page_ids[i]]_vars

\* ------------------------------- a handler writing a body to a slow peer
\* A handler fiber the host has started calls network_write on its
\* connection.  The send buffer holds SendBuf bytes and the peer takes them
\* out slowly, so write fails with EAGAIN again and again; the kernel reports
\* the descriptor writable while the buffer has room or the connection is
\* reset.  The host runs runtime_main, and another fiber may yield beside.

\* the EAGAIN results followed in one call
MaxWouldBlocks == 2

\* what poll reports for the connection when the send buffer has room
Writable(room, error) ==
    IF room > 0 \/ error THEN {<< ConnFd, POLLWRNORM >>} ELSE {}

\* the scheduler's state beside the descriptors the kernel reports
SchedState == << runtime_fibers, runtime_running_fibers,
                 runtime_waiting_fibers, runtime_stopped_fibers,
                 runtime_polls, runtime_current_fiber, pc, host_pc,
                 poll_call, wait_cond, yield_window >>

\* what the handler and its peer leave alone
BesideFlow == << plan, work, trace, arena_vars, http_vars, wire, sent, sock,
                 fin, parse_buf, parse_pc, parsed, body_got, build, pending,
                 served, route_vars, read_vars >>

\* the writer executes user code
WriterRuns == writer # -1 /\ pc = "run" /\ Executing = writer

\* the host starts the handler, which is going to write buf
FlowStart(buf) ==
    /\ writer = -1
    /\ UserCode /\ Executing = 0
    /\ Len(buf) > 0
    /\ Len(runtime_stopped_fibers) > 0 \/ Len(runtime_fibers) < MaxFibers
    /\ \E t \in {runtime_start(Sched)} :
          /\ Commit(t, wait_cond, << >>)
          /\ writer' = t.running[Len(t.running)]
    /\ started' = Len(runtime_stopped_fibers)
    /\ would_blocks' = 0
    /\ write_buf' = buf
    /\ total_written' = 0
    /\ delivered' = << >>
    /\ write_pc' = "write"
    /\ write_error' = FALSE
    /\ ready_fds' = Writable(space, FALSE)
    /\ UNCHANGED << write_ret, space, BesideFlow >>

\* the host starts another fiber, which only yields
FlowSpawn ==
    /\ UserCode /\ Executing = 0
    /\ Start

\* a fiber that is not the writer yields
FlowYield ==
    /\ ~ WriterRuns
    /\ Yield

\* the other fiber returns
FlowExit ==
    /\ UserCode
    /\ Executing # 0 /\ Executing # writer
    /\ Stop

\* write returns n > 0, the bytes the send buffer had room for
FlowWrite(n) ==
    /\ WriterRuns
    /\ write_pc = "write"
    /\ ~ write_error
    /\ n <= space /\ n <= Len(write_buf) - total_written
    /\ delivered' = delivered \o written(write_buf, total_written, n)
    /\ space' = space - n
    /\ ready_fds' = Writable(space - n, FALSE)
    /\ LET pass == network_write_pass(write_buf, total_written, n)
       IN  /\ total_written' = pass.total_written
           /\ IF pass.out = "return"
              THEN write_pc' = "returned" /\ write_ret' = pass.total_written
              ELSE UNCHANGED << write_pc, write_ret >>
    /\ UNCHANGED << write_buf, write_error, flow_vars, started, SchedState,
                    BesideFlow >>

\* write fails with EAGAIN: runtime_write(fd); the loop goes on with the next
\* write when the fiber is resumed
FlowWouldBlock ==
    /\ WriterRuns
    /\ write_pc = "write"
    /\ ~ write_error
    /\ space = 0
    /\ would_blocks < MaxWouldBlocks
    /\ Commit(_runtime_write(Sched, ConnFd),
              (writer :> [fd |-> ConnFd, events |-> POLLWRNORM]) @@ wait_cond,
              << >>)
    /\ would_blocks' = would_blocks + 1
    /\ UNCHANGED << write_vars, writer, started, ready_fds, BesideFlow >>

\* write fails with EPIPE or ECONNRESET: runtime_logf, return -1
FlowFails ==
    /\ WriterRuns
    /\ write_pc = "write"
    /\ write_error
    /\ Commit(runtime_logf(Sched), wait_cond, yield_window)
    /\ write_pc' = "returned"
    /\ write_ret' = -1
    /\ UNCHANGED << write_buf, total_written, delivered, space, write_error,
                    flow_vars, started, ready_fds, BesideFlow >>

\* network_write has returned and the handler returns into runtime_stop
FlowReturn ==
    /\ WriterRuns
    /\ write_pc = "returned"
    /\ Commit(runtime_stop(Sched), wait_cond, << >>)
    /\ write_pc' = "idle"
    /\ writer' = -1
    /\ UNCHANGED << write_buf, total_written, write_ret, delivered, space,
                    write_error, would_blocks, started, ready_fds,
                    BesideFlow >>

\* the peer takes n bytes out of the send buffer
FlowPeerReads(n) ==
    /\ Alive
    /\ writer # -1
    /\ n <= SendBuf - space
    /\ space' = space + n
    /\ ready_fds' = Writable(space + n, write_error)
    /\ UNCHANGED << write_buf, total_written, write_pc, write_ret, delivered,
                    write_error, flow_vars, started, SchedState,
                    BesideFlow >>

\* the peer resets the connection
FlowPeerResets ==
    /\ Alive
    /\ writer # -1
    /\ ~ write_error
    /\ write_error' = TRUE
    /\ ready_fds' = Writable(space, TRUE)
    /\ UNCHANGED << write_buf, total_written, write_pc, write_ret, delivered,
                    space, flow_vars, started, SchedState, BesideFlow >>

NextFlow ==
    \/ \E buf \in WriteBuffers : FlowStart(buf)
    \/ FlowSpawn
    \/ FlowYield
    \/ FlowExit
    \/ \E n \in 1..SendBuf : FlowWrite(n)
    \/ FlowWouldBlock
    \/ FlowFails
    \/ FlowReturn
    \/ \E n \in 1..SendBuf : FlowPeerReads(n)
    \/ FlowPeerResets
    \/ Main
    \/ PollReturnNext
    \/ PollReturnStop

\* a handler fiber writing to a slow peer, under the scheduler
FlowSpec == Init /\ [][NextFlow]_vars

\* the writer is in the waiting list with the record runtime_write appended
WriterWaits ==
    \E i \in 1..Len(runtime_waiting_fibers) :
        /\ runtime_waiting_fibers[i] = writer
        /\ runtime_polls[i].fd = ConnFd
        /\ runtime_polls[i].events = POLLWRNORM

\* C34: a would-block result of write puts the handler fiber into waiting
\* with a record for its descriptor and write readiness, and another fiber
\* or a blocked poll goes on; the fiber leaves waiting only in a step in
\* which poll reports that descriptor writable; and the fiber calls write
\* only while it executes and is not waiting.  So between two would-block
\* results of one call there is a wait and a readiness report for the
\* fiber's own record: no retry without one.
C34_NoBusySpin ==
    /\ [][FlowWouldBlock
          => /\ WriterWaits'
             /\ writer \notin Range(runtime_running_fibers')
             /\ ~ WriterRuns']_vars
    /\ [][(WriterWaits /\ ~ WriterWaits')
          => /\ << ConnFd, POLLWRNORM >> \in ready_fds
             /\ writer \in Range(runtime_running_fibers')
             /\ Main \/ FlowYield \/ FlowExit
                   \/ PollReturnNext \/ PollReturnStop]_vars
    /\ [](WriterRuns => ~ WriterWaits)
    /\ [][would_blocks' # would_blocks
          => (FlowWouldBlock \/ \E buf \in WriteBuffers : FlowStart(buf))]_vars

\* the call has met EAGAIN twice and has returned with the whole buffer
\* delivered
C34_Witness ==
    /\ would_blocks = 2
    /\ write_pc = "returned"
    /\ write_ret = Len(write_buf)
    /\ delivered = write_buf

====
